---- MODULE Spec2Model ----
(***************************************************************************)
(* Model of cauldron: the Postgres access layer (src/cauldron/sql.py) and  *)
(* the Redis access layer (src/vessel/redis_cache.py).                      *)
(*                                                                         *)
(* Scheduling is asyncio's: one event loop, tasks interleave only at       *)
(* suspension points (yield from / await).  Each action below is the code  *)
(* a task runs between two suspension points, or a finer step of it.       *)
(***************************************************************************)
EXTENDS Integers, Sequences, FiniteSets, TLC

\* ---------------------------------------------------------------- bounds
NumTasks == 3
NumScopes == 2
PoolMax == 1
MaxStmts == 1
MaxTime == 4
NumMemo == 2
\* the groups of a filter expression, at most
MaxGroups == 2

Tasks == 1..NumTasks
\* in the cursor specification: the tasks that run decorated operations, and the
\* tasks that asyncio.async(cls.log_connection_pool_state()) starts
ScopeTasks == 1..NumScopes
DiagTasks == Tasks \ ScopeTasks
\* two parameter sets that differ
Cfgs == {1, 2}
\* RedisCache, the class, and two RedisCacheV2 instances
ClassOwner == 0
Insts == {1, 2}
Owners == {ClassOwner} \cup Insts
RefreshPeriods == {-1, 1}

\* ------------------------------------------------------------- constants
NoPool == 0
ExtPool == -1
MinParams == 5
ConnectKeys == 11
\* the ten minutes of the rate limit, in ticks of the clock
RateWindow == 2

VARIABLES
    \* PostgresStore class state
    connection_params,  \* 0: the empty dict; c in Cfgs: the parameters of connect(c)
    use_pool_flag,      \* PostgresStore._use_pool: "None", "True" or "False"
    refresh_period,     \* PostgresStore.refresh_period (0 models: not yet set)
    pool,               \* PostgresStore._pool: NoPool, a created pool (1, 2, ..) or ExtPool
    pool_pending,       \* PostgresStore._pool_pending, the value of the Semaphore(1)
    \* the _periodic_cleansing tasks
    cl_sched,           \* scheduled with asyncio.async, not yet started
    cl_sleep,           \* suspended in asyncio.sleep
    cl_cleared,         \* a _periodic_cleansing task has called pool.clear()
    cl_clearing,        \* suspended in pool.clear()
    cl_failed,          \* a pool.clear() has raised and ended its task
    \* tasks
    pc,                 \* where each task stands
    op,                 \* the operation each task is running
    ret,                \* what the task's call returned or raised; for get_pool():
                        \* "pool" (found at line 225), "pool_waited" (found under the
                        \* lock), "pool_made" (created by this call), or the error
    val,                \* the pool it returned; while creating, the parameters passed
    \* history
    createCalls,        \* invocations of aiopg.create_pool
    createFailed,       \* invocations of aiopg.create_pool that raised
    created,            \* the configuration each created pool was made with
    returned,           \* the pools get_pool() has returned
    usePoolCalled,      \* use_pool() has been called
    lateCall,           \* a get_pool() call began after the pool was created and connect()
                        \* then stored other parameters
    \* cursor scopes
    held,               \* the connection the task's get_cursor holds: "none", "pooled", "dedicated"
    curOpen,            \* the task's cursor is open
    txn,                \* the task's connection is inside a transaction
    pending,            \* statements of the task's open transaction, not committed
    store,              \* committed statements in the data store, by the task that wrote them
    log,                \* the statements executed on the task's cursor, with their success
    opOut,              \* how the wrapped operation ended: "none", "returned", "exc", "base"
    stmts,              \* statements the wrapped operation has executed
    diagSched,          \* log_connection_pool_state tasks scheduled, not yet started
    total_log_counts,   \* PostgresStore._TOTAL_LOG_COUNTS
    last_log_timestamp, \* PostgresStore._LAST_LOG_TIMESTAMP, in ticks of the clock
    now,                \* int(time.time()), in ticks of the clock
    passes,             \* the times at which log_connection_pool_state passed its rate limit
    \* memoization
    m_dec,              \* the decorator that wraps the function
    m_fkind,            \* the kind of function it wraps
    m_cache,            \* the entries in Redis, by digest key: a JSON text each
    m_calls,            \* invocations of the wrapped function, by digest key
    m_sig,              \* the arguments of the task's call
    m_key,              \* digest_key of the task's call
    m_seen,             \* the entry of its key existed when the task's call began
    m_val,              \* the value the wrapped function gave the task, or the call returned
    \* RedisCache (owner 0) and the RedisCacheV2 instances (owners 1, 2)
    r_cfg,              \* RedisCache._host/_port/_minsize/_maxsize: 0 None, else connect_v2's
    r_pool,             \* the owner's _pool: NoPool, or the pool created n-th
    r_lock,             \* the owner's _lock, the value of the Semaphore(1)
    owner,              \* the owner each task calls
    r_made,             \* pools aioredis.create_pool has returned
    r_creates,          \* create_pool calls made by the owner's get_pool()
    r_failed,           \* create_pool calls of the owner's get_pool() that raised
    r_madeFor,          \* pools created for the owner, by get_pool() and connect()
    r_connectCalls,     \* create_pool calls made by RedisCache.connect()
    r_lost,             \* get_pool() calls of the owner that took the lock and found the pool made
    r_bound,            \* the pool get_pool() returned to the task, on which its command runs
    \* the keys in Redis and the calls of the key operations
    kv_store,           \* the value of each key, or Nil
    kv_last,            \* the last key operation: its name and arguments
    kv_sweep,           \* the call that began the sweep: its name and namespace
    kv_res,             \* what it returned
    kv_wrote,           \* the key its Redis command named
    kv_pc,              \* where the clear_namespace / delete_by_prefix call stands
    kv_pat,             \* its pattern, without the trailing *
    kv_listed,          \* _keys, the answer to KEYS pattern
    kv_since,           \* the matching keys that have existed since the call began
    kv_late,            \* the matching keys created after KEYS answered
    \* the statement a query method executes
    q_pc,               \* "idle", or "executed" after cur.execute
    q_call,             \* the method called and its arguments
    q_text,             \* the statement text given to cur.execute
    q_vals              \* the values given to cur.execute

pgVars == <<connection_params, use_pool_flag, refresh_period, pool, pool_pending>>
clVars == <<cl_sched, cl_sleep, cl_cleared, cl_clearing, cl_failed>>
taskVars == <<pc, op, ret, val>>
histVars == <<createCalls, createFailed, created, returned, usePoolCalled, lateCall>>
redisVars == <<r_cfg, r_pool, r_lock, owner, r_made, r_creates, r_failed, r_madeFor,
               r_connectCalls, r_lost, r_bound>>
curVars == <<held, curOpen, txn, pending, store, log, opOut, stmts, diagSched,
             total_log_counts>>
\* everything the Postgres side owns, and everything the Redis side owns
pgSide == <<pgVars, clVars, histVars, curVars>>
memoVars == <<m_dec, m_fkind, m_cache, m_calls, m_sig, m_key, m_seen, m_val>>
storeVars == <<kv_store, kv_last, kv_sweep, kv_res, kv_wrote, kv_pc, kv_pat, kv_listed, kv_since, kv_late>>
queryVars == <<q_pc, q_call, q_text, q_vals>>
dataVars == <<storeVars, queryVars>>
kvSide == <<redisVars, memoVars, dataVars>>
\* the clock and the timestamp it is compared with
clockVars == <<last_log_timestamp, now, passes>>
\* what the operations of the Postgres side, other than the diagnostics, and
\* what the operations of the Redis side leave alone
offPg == <<kvSide, clockVars>>
offKv == <<pgSide, clockVars, memoVars, dataVars>>
offMemo == <<pgSide, clockVars, redisVars, dataVars>>
vars == <<pgVars, clVars, taskVars, histVars, curVars, redisVars, clockVars, memoVars, dataVars>>

\* len(cls._connection_params): connect() sets eleven keys
ParamsLenMut(c) == ConnectKeys
ParamsLen(c) == IF c = 0 THEN 0 ELSE ConnectKeys

\* the results of get_pool() that are a pool
PoolResults == {"pool", "pool_waited", "pool_made"}

\* `not cls._pool`
PoolAbsentMut(p) == TRUE
PoolAbsent(p) == p = NoPool

\* the second `not cls._pool`, under the lock
PoolAbsentLockedMut(p) == TRUE
PoolAbsentLocked(p) == PoolAbsent(p)

\* Semaphore.acquire can complete
SemFree(s) == s > 0

\* ------------------------------------------------ memoization, the data

\* s.join(texts)
RECURSIVE Join(_, _)
Join(sep, texts) ==
    IF texts = <<>> THEN <<>>
    ELSE IF Len(texts) = 1 THEN texts[1]
    ELSE texts[1] \o sep \o Join(sep, Tail(texts))


\* the memoization decorators: of RedisCache the three, of RedisCacheV2 the one
\* that differs from its RedisCache namesake in how it runs the function
Decorators == {"asyncio_redis_decorator", "redis_cache_decorator",
               "redis_cache_decorator_v2", "RedisCacheV2.redis_cache_decorator_v2"}

\* the decorators that keep only arguments of the allowed types in the key
FiltersArgs(dec) == dec \in {"redis_cache_decorator_v2", "RedisCacheV2.redis_cache_decorator_v2"}

\* the wrapped function: an `async def`, a generator made a coroutine with
\* @asyncio.coroutine, or a plain function that returns its value
FuncKinds == {"async", "generator", "plain"}

\* the decorator awaits what the call of the function gives:
\* RedisCache.redis_cache_decorator_v2 only if inspect.isgeneratorfunction
\* says so (lines 289-292), every other decorator always (lines 196, 221, 564)
Awaited(dec, kind) == dec = "redis_cache_decorator_v2" => kind = "generator"

\* what the call of an async def gives when it is not awaited: a coroutine
\* object, whose body never runs and which json.dumps refuses
Coroutine == "coroutine"

\* argument values: an int and two objects of a class of the application
PosVals == {"1", "objA", "objB"}
KwVals == {"absent", "objA"}
\* the calls f(self, a) and f(self, a, k=..)
Sigs == [self : {"s1"}, a : PosVals, k : KwVals]

\* the dicts {"a": 1}, {"b": 1, "a": 2} and {"a": 2, "b": 1}, by their items
\* in the order of insertion
Dicts == {"dict_a1", "dict_b1a2", "dict_a2b1"}
DictItems(v) ==
    CASE v = "dict_a1" -> <<<<"a", "1">>>>
      [] v = "dict_b1a2" -> <<<<"b", "1">>, <<"a", "2">>>>
      [] v = "dict_a2b1" -> <<<<"a", "2">>, <<"b", "1">>>>
\* the str '{"a": 1}'
Strs == {"str_a1"}
StrText(v) == "{\"a\": 1}"

\* calls on two receivers, calls with a tuple, a list, a dict, a str, None or
\* an object of the application for the argument or with a tuple, a list or
\* None for the keyword argument, the call with the receiver alone (a absent),
\* and the call f() without any argument
KeySigs ==
    [self : {"s1", "s2"}, a : {"tuple"}, k : {"absent"}]
        \cup [self : {"s1"}, a : {"list", "None", "objA", "absent"} \cup Dicts \cup Strs,
                k : {"absent"}]
        \cup [self : {"s1"}, a : {"tuple"}, k : {"tuple", "list", "None"}]
        \cup {[self |-> "absent", a |-> "absent", k |-> "absent"]}

\* *args of the call
Args(s) ==
    IF s.self = "absent" THEN <<>>
    ELSE IF s.a = "absent" THEN <<s.self>> ELSE <<s.self, s.a>>

\* the positional arguments that go into the key: args[1:] (lines 184, 210, 272)
KeyArgsMut(args) == args
KeyArgs(args) == Tail(args)

\* `type(arg) in allowed_types_for_caching` (line 8)
Kept(v) == v \in {"1", "tuple", "list"} \cup Dicts \cup Strs

\* json.dumps accepts the value
Serializable(v) == v \notin {"objA", "objB", "object", Coroutine}

\* s.join(texts), for texts that are not split into their characters
RECURSIVE JoinText(_, _)
JoinText(sep, texts) ==
    IF texts = <<>> THEN ""
    ELSE IF Len(texts) = 1 THEN texts[1]
    ELSE texts[1] \o sep \o JoinText(sep, Tail(texts))

\* the keys of a dict in sorted order
Letters == <<"a", "b">>
\* json.dumps(arg, sort_keys=True) of a dict (lines 186, 212, 275)
DictText(items) ==
    LET sorted == Join(<<>>, [i \in 1..Len(Letters) |->
                                SelectSeq(items, LAMBDA it : it[1] = Letters[i])])
    IN "{" \o JoinText(", ", [i \in 1..Len(sorted) |->
                                "\"" \o sorted[i][1] \o "\": " \o sorted[i][2]])
           \o "}"

\* repr of a str
Quoted(text) == "'" \o text \o "'"

\* what str() of a list prints for an element: (1, 2) and [1, 2] differ, a str
\* is quoted, an object of the application prints as itself
Repr(v) ==
    CASE v = "1" -> "1"
      [] v = "None" -> "None"
      [] v = "tuple" -> "(1, 2)"
      [] v = "list" -> "[1, 2]"
      [] v \in Strs -> Quoted(StrText(v))
      [] OTHER -> "<" \o v \o ">"

\* the element of new_args an argument makes: a dict enters as the str that
\* is its JSON text (lines 185-188, 211-214, 274-277)
Entry(v) == IF v \in Dicts THEN Quoted(DictText(DictItems(v))) ELSE Repr(v)

\* _args: '' for a call without positional arguments (lines 181-182, 207-208,
\* 269-270), else str(new_args), new_args being made of every argument after
\* the first, or with the v2 decorators of those of an allowed type
PosPart(dec, args) ==
    IF args = <<>> THEN ""
    ELSE LET kept == SelectSeq(KeyArgs(args), LAMBDA v : ~FiltersArgs(dec) \/ Kept(v))
         IN "[" \o JoinText(", ", [i \in 1..Len(kept) |-> Entry(kept[i])]) \o "]"

\* json.dumps of a value: a tuple and a list have the same text
Dumps(v) == IF v = "None" THEN "null" ELSE IF v = "1" THEN "1" ELSE "[1, 2]"
Loads(x) == IF x = "null" THEN "None" ELSE IF x = "1" THEN "1" ELSE "list"

\* the keyword arguments that go into the key (kwargs, or _kwargs of lines
\* 279-282), as json.dumps writes them (lines 216, 284)
KwPart(dec, k) ==
    IF k = "absent" \/ (FiltersArgs(dec) /\ ~Kept(k)) THEN <<>>
    ELSE IF Serializable(k) THEN <<Dumps(k)>> ELSE <<k>>

\* json.dumps of the key raises TypeError: a keyword argument it cannot serialize
KeyFails(dec, s) == KwPart(dec, s.k) # <<>> /\ ~Serializable(s.k)

\* the digest key: md5 of the JSON text of function name, rendered positional
\* arguments and keyword arguments; distinct texts are taken to have distinct
\* digests
DigestKey(dec, s) == <<"f", PosPart(dec, Args(s)), KwPart(dec, s.k)>>

\* the values the wrapped function returns; json.dumps and json.loads of them
Values == {"None", "tuple", "object"}
Nil == "nil"

\* `if result:` (line 219), `result and len(result) > 0 and result[0]` (line 193)
HitMut(x) == FALSE
Hit(x) == x # Nil /\ x # ""

\* what redis holds after SET key value / HMSET namespace field value
WrittenMut(old, new) == IF old = Nil THEN new ELSE old
Written(old, new) == new

\* the entry redis holds under the key, Nil if it holds none
EntryOf(cache, key) == IF key \in DOMAIN cache THEN cache[key] ELSE Nil

\* the invocations of the wrapped function made for the key
CallsOf(calls, key) == IF key \in DOMAIN calls THEN calls[key] ELSE 0

\* the table with the key set to the value
With(table, key, v) ==
    [k \in DOMAIN table \cup {key} |-> IF k = key THEN v ELSE table[k]]

\* no entry, no call
InitMemoRest ==
    /\ m_cache = <<>>
    /\ m_calls = <<>>
    /\ m_sig = [t \in Tasks |-> [self |-> "s1", a |-> "1", k |-> "absent"]]
    /\ m_key = [t \in Tasks |-> Nil]
    /\ m_seen = [t \in Tasks |-> FALSE]
    /\ m_val = [t \in Tasks |-> "none"]

InitMemoVars ==
    /\ m_dec = "redis_cache_decorator"
    /\ m_fkind = "async"
    /\ InitMemoRest

\* ------------------------------------------------ the keys, the data

\* a string is the sequence of its characters
Colon == <<":">>
\* None, which is no string
None == <<"None">>

\* the key names and the namespaces given to the key operations
KeyNames == {<<"a">>}
Namespaces == {None, <<>>, <<"n">>}
KvValues == {"v1", "v2"}
\* the namespaces cleared, one of them beginning with another
ClearedNamespaces == Namespaces \cup {<<"n", "n">>}

\* _get_key (lines 172-174)
GetKey(namespace, key) == namespace \o Colon \o key

\* the key operations, by the test they make of the namespace
KeyOps == {"set_key", "set_key_if_not_exists", "get_key", "delete",
           "increment_value", "increment_by_value", "run_lua"}
\* `if namespace:` (lines 98, 234), against `if namespace is not None:`
\* (lines 65, 74, 82, 106, 126)
TestsTruth(name) == name \in {"set_key_if_not_exists", "run_lua"}

\* the key the operation names in its Redis command
RedisKey(name, namespace, key) ==
    IF TestsTruth(name)
    THEN IF namespace # None /\ namespace # <<>> THEN GetKey(namespace, key) ELSE key
    ELSE IF namespace # None THEN GetKey(namespace, key) ELSE key

\* every key the operations can name
\* and the keys of the hashes, which are the namespaces themselves (line 120)
StoredKeys ==
    {RedisKey("set_key", ns, k) : ns \in ClearedNamespaces, k \in KeyNames}
        \cup (ClearedNamespaces \ {None})

\* what the model keeps of a list and of a hash: that the key holds one; the
\* hash has the one field of Fields
ListValue == "list"
HashValue == "hash"
\* the Lua scripts given to run_lua: none, and
\* return redis.call('SET', KEYS[1], ARGV[1])
Scripts == {<<>>, <<"SET">>}
Fields == {"f"}

\* the prefixes given to delete_by_prefix
Prefixes == {<<>>, <<"a">>}

IsPrefix(p, key) == Len(p) <= Len(key) /\ SubSeq(key, 1, Len(p)) = p

\* KEYS pattern, for a pattern p*: the keys that exist and begin with p
KeysMatching(st, p) == {key \in DOMAIN st : st[key] # Nil /\ IsPrefix(p, key)}

\* the keys redis.delete(*_keys) removes (line 156): those listed at line 154
SweepTargetsMut(listed, st, p) == KeysMatching(st, p)
SweepTargets(listed, st, p) == listed

Deleted(st, keys) == [key \in DOMAIN st |-> IF key \in keys THEN Nil ELSE st[key]]

NoCall == [name |-> "none", ns |-> None, k |-> <<>>, v |-> "none"]

InitStoreVars ==
    /\ kv_store = [key \in StoredKeys |-> Nil]
    /\ kv_last = NoCall
    /\ kv_sweep = [name |-> "none", ns |-> None]
    /\ kv_res = "none"
    /\ kv_wrote = <<>>
    /\ kv_pc = "idle"
    /\ kv_pat = <<>>
    /\ kv_listed = {}
    /\ kv_since = {}
    /\ kv_late = {}

InitQueryVars ==
    /\ q_pc = "idle"
    /\ q_call = [name |-> "none", table |-> <<>>, order_by |-> <<>>, columns |-> <<>>,
                 where_keys |-> <<>>, values |-> <<>>, limit |-> 0, offset |-> 0]
    /\ q_text = <<>>
    /\ q_vals = <<>>

InitDataVars == InitStoreVars /\ InitQueryVars

InitRedisVars ==
    /\ r_cfg = 0
    /\ r_pool = [o \in Owners |-> NoPool]
    /\ r_lock = [o \in Owners |-> 1]
    /\ owner = [t \in Tasks |-> ClassOwner]
    /\ r_made = 0
    /\ r_creates = [o \in Owners |-> 0]
    /\ r_failed = [o \in Owners |-> 0]
    /\ r_madeFor = [o \in Owners |-> 0]
    /\ r_connectCalls = 0
    /\ r_lost = [o \in Owners |-> 0]
    /\ r_bound = [t \in Tasks |-> NoPool]

InitCurVars ==
    /\ held = [t \in Tasks |-> "none"]
    /\ curOpen = [t \in Tasks |-> FALSE]
    /\ txn = [t \in Tasks |-> FALSE]
    /\ pending = [t \in Tasks |-> 0]
    /\ store = [t \in Tasks |-> 0]
    /\ log = [t \in Tasks |-> <<>>]
    /\ opOut = [t \in Tasks |-> "none"]
    /\ stmts = [t \in Tasks |-> 0]
    /\ diagSched = 0
    /\ total_log_counts = 0

\* _LAST_LOG_TIMESTAMP = int(time.time()) when the class is defined
InitClock ==
    /\ last_log_timestamp = 0
    /\ now = 0
    /\ passes = <<>>

InitTasks ==
    /\ pc = [t \in Tasks |-> "idle"]
    /\ op = [t \in Tasks |-> "none"]
    /\ ret = [t \in Tasks |-> "none"]
    /\ val = [t \in Tasks |-> 0]

InitPgVars ==
    /\ connection_params = 0
    /\ use_pool_flag = "None"
    /\ refresh_period = 0
    /\ pool = NoPool
    /\ pool_pending = 1
    /\ cl_sched = 0
    /\ cl_sleep = 0
    /\ cl_cleared = FALSE
    /\ cl_clearing = 0
    /\ cl_failed = FALSE
    /\ createCalls = 0
    /\ createFailed = 0
    /\ created = <<>>
    /\ returned = {}
    /\ usePoolCalled = FALSE
    /\ lateCall = FALSE

InitPg == InitPgVars /\ InitTasks /\ InitCurVars /\ InitRedisVars /\ InitClock /\ InitMemoVars /\ InitDataVars

\* ----------------------------------------------------- src/cauldron/sql.py

\* PostgresStore.connect: stores the parameters, creates nothing
connect(c, up, rp) ==
    /\ connection_params' = c
    /\ use_pool_flag' = up
    /\ refresh_period' = rp
    /\ UNCHANGED <<pool, pool_pending, clVars, taskVars, histVars>>
    /\ UNCHANGED <<curVars, offPg>>

\* PostgresStore.use_pool
use_pool(p) ==
    /\ pool' = p
    /\ usePoolCalled' = TRUE
    /\ UNCHANGED lateCall
    /\ UNCHANGED <<connection_params, use_pool_flag, refresh_period, pool_pending,
                   clVars, taskVars, createCalls, createFailed, created, returned>>
    /\ UNCHANGED <<curVars, offPg>>

\* where a task goes when get_pool() has returned the pool: its own call is over,
\* get_cursor goes on to take a cursor from the pool (line 263)
after_get_pool(k) == IF k = "get_pool" THEN "done" ELSE "acquire"

\* get_pool() up to the wait for the semaphore (lines 223-226), for the task's
\* own call (op "get_pool") or on behalf of get_cursor
get_pool_enter(t, k) ==
    IF ParamsLen(connection_params) < MinParams
      THEN /\ pc' = [pc EXCEPT ![t] = "done"]
           /\ ret' = [ret EXCEPT ![t] = "ConnectionError"]
           /\ UNCHANGED <<val, returned>>
      ELSE IF PoolAbsent(pool)
        THEN /\ pc' = [pc EXCEPT ![t] = "wait_lock"]
             /\ UNCHANGED <<ret, val, returned>>
        ELSE /\ pc' = [pc EXCEPT ![t] = after_get_pool(k)]
             /\ ret' = [ret EXCEPT ![t] = "pool"]
             /\ val' = [val EXCEPT ![t] = pool]
             /\ returned' = returned \cup {pool}

\* a task calls get_pool()
get_pool_call(t) ==
    /\ pc[t] = "idle"
    /\ op' = [op EXCEPT ![t] = "get_pool"]
    /\ get_pool_enter(t, "get_pool")
    /\ lateCall' = (lateCall \/ (created # <<>> /\ connection_params # created[1]))
    /\ UNCHANGED <<pgVars, clVars, createCalls, createFailed, created, usePoolCalled>>
    /\ UNCHANGED <<curVars, offPg>>

\* `with (yield from cls._pool_pending)`: the semaphore is taken, and with no
\* suspension in between the pool is checked again (lines 226-228): the task
\* leaves with the pool, or calls create_pool and waits for it, holding the lock
get_pool_lock(t) ==
    /\ pc[t] = "wait_lock"
    /\ SemFree(pool_pending)
    /\ IF PoolAbsentLocked(pool)
         THEN /\ pc' = [pc EXCEPT ![t] = "creating"]
              /\ pool_pending' = pool_pending - 1
              /\ val' = [val EXCEPT ![t] = connection_params]
              /\ createCalls' = createCalls + 1
              /\ UNCHANGED <<ret, returned>>
         ELSE /\ pc' = [pc EXCEPT ![t] = after_get_pool(op[t])]
              /\ UNCHANGED pool_pending
              /\ ret' = [ret EXCEPT ![t] = "pool_waited"]
              /\ val' = [val EXCEPT ![t] = pool]
              /\ returned' = returned \cup {pool}
              /\ UNCHANGED createCalls
    /\ UNCHANGED <<connection_params, use_pool_flag, refresh_period, pool, clVars, op,
                   createFailed, created, usePoolCalled, lateCall>>
    /\ UNCHANGED <<curVars, offPg>>

\* create_pool returned: the pool is stored, _periodic_cleansing scheduled, the lock
\* released and the pool returned (lines 228-230)
get_pool_created(t) ==
    /\ pc[t] = "creating"
    /\ created' = Append(created, val[t])
    /\ pool' = Len(created) + 1
    /\ cl_sched' = cl_sched + 1
    /\ pool_pending' = pool_pending + 1
    /\ pc' = [pc EXCEPT ![t] = after_get_pool(op[t])]
    /\ ret' = [ret EXCEPT ![t] = "pool_made"]
    /\ val' = [val EXCEPT ![t] = pool']
    /\ returned' = returned \cup {pool'}
    /\ UNCHANGED <<connection_params, use_pool_flag, refresh_period, cl_sleep, cl_cleared,
                   cl_clearing, cl_failed,
                   op, createCalls, createFailed, usePoolCalled, lateCall>>
    /\ UNCHANGED <<curVars, offPg>>

\* the semaphore after the with block of get_pool() is left by an exception:
\* __exit__ releases it
AfterFailureMut(s) == s
AfterFailure(s) == s + 1

\* create_pool raised: the with block releases the lock, the failure propagates
get_pool_create_failed(t) ==
    /\ pc[t] = "creating"
    /\ createFailed' = createFailed + 1
    /\ pool_pending' = AfterFailure(pool_pending)
    /\ pc' = [pc EXCEPT ![t] = "done"]
    /\ ret' = [ret EXCEPT ![t] = "CreateError"]
    /\ UNCHANGED <<connection_params, use_pool_flag, refresh_period, pool, clVars, op,
                   val, createCalls, created, returned, usePoolCalled, lateCall>>
    /\ UNCHANGED <<curVars, offPg>>

\* `if cls.refresh_period > 0` (line 238)
Cleanses(rp) == rp > 0

\* _periodic_cleansing starts: it sleeps if refresh_period > 0, else it ends
cleansing_start ==
    /\ cl_sched > 0
    /\ cl_sched' = cl_sched - 1
    /\ cl_sleep' = IF Cleanses(refresh_period) THEN cl_sleep + 1 ELSE cl_sleep
    /\ UNCHANGED <<cl_cleared, cl_clearing, cl_failed>>
    /\ UNCHANGED <<pgVars, taskVars, histVars>>
    /\ UNCHANGED <<curVars, offPg>>

\* the sleep is over: the task calls pool.clear() and is suspended in it
\* (`yield from cls._pool.clear()`, line 241)
cleansing_wake ==
    /\ cl_sleep > 0
    /\ cl_sleep' = cl_sleep - 1
    /\ cl_cleared' = TRUE
    /\ cl_clearing' = cl_clearing + 1
    /\ UNCHANGED <<cl_sched, cl_failed>>
    /\ UNCHANGED <<pgVars, taskVars, histVars>>
    /\ UNCHANGED <<curVars, offPg>>

\* pool.clear() returned: the task schedules its successor (line 242) and ends
cleansing_cleared ==
    /\ cl_clearing > 0
    /\ cl_clearing' = cl_clearing - 1
    /\ cl_sched' = cl_sched + 1
    /\ UNCHANGED <<cl_sleep, cl_cleared, cl_failed>>
    /\ UNCHANGED <<pgVars, taskVars, histVars>>
    /\ UNCHANGED <<curVars, offPg>>

\* pool.clear() raised: the task ends with the exception, line 242 is not
\* reached and no successor is scheduled
cleansing_clear_failed ==
    /\ cl_clearing > 0
    /\ cl_clearing' = cl_clearing - 1
    /\ cl_failed' = TRUE
    /\ UNCHANGED <<cl_sched, cl_sleep, cl_cleared>>
    /\ UNCHANGED <<pgVars, taskVars, histVars>>
    /\ UNCHANGED <<curVars, offPg>>



NextPg ==
    \/ \E c \in Cfgs, up \in {"True", "False"}, rp \in RefreshPeriods : connect(c, up, rp)
    \/ use_pool(ExtPool)
    \/ \E t \in Tasks : get_pool_call(t)
    \/ \E t \in Tasks : get_pool_lock(t)
    \/ \E t \in Tasks : get_pool_created(t)
    \/ \E t \in Tasks : get_pool_create_failed(t)
    \/ cleansing_start
    \/ cleansing_wake
    \/ cleansing_cleared
    \/ cleansing_clear_failed

SpecPg == InitPg /\ [][NextPg]_vars

\* the pool manager under an event loop that runs every task it has scheduled
\* and ends every sleep, and in which a pool.clear() ends, by returning or by
\* raising; connect() and use_pool() may be called at any time
SpecCleansing ==
    InitPg /\ [][NextPg]_vars
        /\ WF_vars(cleansing_start) /\ WF_vars(cleansing_wake)
        /\ WF_vars(cleansing_cleared \/ cleansing_clear_failed)

\* ------------------------------------------- cursor scopes and diagnostics

\* the decorators cursor, dict_cursor, nt_cursor and transaction
PlainKinds == {"cursor", "dict_cursor", "nt_cursor"}
ScopeKinds == PlainKinds \cup {"transaction"}

\* override_use_pool of the get_cursor call: the decorators leave the default
\* True, run_query_on_separate_connection passes False
OverrideOf(k) == k # "diag"

\* `cls._use_pool and override_use_pool`
UsesPoolMut(flag, override) == flag = "True"
UsesPool(flag, override) == flag = "True" /\ override

\* connections checked out of the pool (pool._used)
PoolUsed == Cardinality({t \in Tasks : held[t] = "pooled"})

\* the statements the transaction wrapper executes (lines 101, 106, 104)
StmtOnEntry == "BEGIN"
StmtOnSuccessMut == "ROLLBACK"
StmtOnSuccess == "COMMIT"
StmtOnFailureMut == "COMMIT"
StmtOnFailure == "ROLLBACK"

\* `except Exception`: what the wrapper catches
CaughtMut(e) == FALSE
Caught(e) == e = "exc"

\* the store after a statement of the wrapper: a COMMIT that succeeds makes the
\* statements of the open transaction permanent
StoreAfter(stmt, ok, st, pend) == IF stmt = "COMMIT" /\ ok THEN st + pend ELSE st

\* a with block that is left closes the cursor, however it is left
OpenAfterExitMut(raised) == raised
OpenAfterExit(raised) == FALSE

\* tasks scheduled by `asyncio.async(cls.log_connection_pool_state())`
DiagAfterTimeoutMut(n) == n
DiagAfterTimeout(n) == n + 1

\* the with block of a scope is left: the cursor is closed and the connection
\* released to the pool or, with cursor_context_manager, closed; a transaction
\* still open on the connection ends without a commit
scope_exit(t, raised) ==
    /\ curOpen' = [curOpen EXCEPT ![t] = OpenAfterExit(raised)]
    /\ held' = [held EXCEPT ![t] = "none"]
    /\ txn' = [txn EXCEPT ![t] = FALSE]
    /\ pending' = [pending EXCEPT ![t] = 0]

\* get_cursor up to its first suspension (lines 250-254)
get_cursor_enter(t, k) ==
    IF UsesPool(use_pool_flag, OverrideOf(k))
      THEN get_pool_enter(t, k)
      ELSE /\ pc' = [pc EXCEPT ![t] = IF connection_params = 0 THEN "done" ELSE "db_connect"]
           /\ ret' = [ret EXCEPT ![t] = IF connection_params = 0 THEN "KeyError" ELSE @]
           /\ UNCHANGED <<val, returned>>

\* a task calls an operation decorated with cursor, dict_cursor, nt_cursor or
\* transaction; tasks are numbered in the order of their calls
scope_call(t, k) ==
    /\ pc[t] = "idle"
    /\ \A u \in ScopeTasks : u < t => pc[u] # "idle"
    /\ op' = [op EXCEPT ![t] = k]
    /\ get_cursor_enter(t, k)
    /\ UNCHANGED <<pgVars, clVars, createCalls, createFailed, created, usePoolCalled, lateCall, curVars, offPg>>

\* aiopg.connect returned the dedicated connection (line 254)
db_connect_done(t) ==
    /\ pc[t] = "db_connect"
    /\ held' = [held EXCEPT ![t] = "dedicated"]
    /\ pc' = [pc EXCEPT ![t] = "acquire"]
    /\ UNCHANGED <<pgVars, clVars, histVars, op, ret, val, curOpen, txn, pending, store,
                   log, opOut, stmts, diagSched, total_log_counts, offPg>>

\* aiopg.connect raised
db_connect_failed(t) ==
    /\ pc[t] = "db_connect"
    /\ pc' = [pc EXCEPT ![t] = "done"]
    /\ ret' = [ret EXCEPT ![t] = "ConnectError"]
    /\ UNCHANGED <<pgVars, clVars, histVars, op, val, curVars, offPg>>

\* cursor_from_connection_source: the cursor arrived in time (lines 273-274);
\* get_cursor returns it and the with block of the decorator is entered
cursor_acquired(t) ==
    /\ pc[t] = "acquire"
    /\ IF held[t] = "dedicated"
         THEN UNCHANGED held
         ELSE /\ PoolUsed < PoolMax
              /\ held' = [held EXCEPT ![t] = "pooled"]
    /\ curOpen' = [curOpen EXCEPT ![t] = TRUE]
    /\ pc' = [pc EXCEPT ![t] = IF op[t] = "transaction" THEN "begin" ELSE "in_scope"]
    /\ UNCHANGED <<pgVars, clVars, histVars, op, ret, val, txn, pending, store, log,
                   opOut, stmts, diagSched, total_log_counts, offPg>>

\* cursor_from_connection_source: asyncio.wait_for timed out (lines 275-278); the
\* diagnostic task is scheduled and TimeoutError raised, through get_cursor, to
\* the caller of the decorated operation
cursor_timeout(t) ==
    /\ pc[t] = "acquire"
    /\ diagSched' = DiagAfterTimeout(diagSched)
    /\ pc' = [pc EXCEPT ![t] = "done"]
    /\ ret' = [ret EXCEPT ![t] = "TimeoutError"]
    /\ UNCHANGED <<pgVars, clVars, histVars, op, val, held, curOpen, txn, pending, store,
                   log, opOut, stmts, total_log_counts, offPg>>

\* transaction: c.execute('BEGIN') (line 101) succeeded or raised
txn_begin(t, ok) ==
    /\ pc[t] = "begin"
    /\ log' = [log EXCEPT ![t] = Append(@, <<StmtOnEntry, ok>>)]
    /\ txn' = [txn EXCEPT ![t] = ok]
    /\ pc' = [pc EXCEPT ![t] = IF ok THEN "in_scope" ELSE "rollback"]
    /\ UNCHANGED <<pgVars, clVars, histVars, op, ret, val, held, curOpen, pending, store,
                   opOut, stmts, diagSched, total_log_counts, offPg>>

\* the wrapped operation executes a writing statement on its cursor: inside the
\* transaction it stays pending, outside the connection commits it at once
op_stmt(t) ==
    /\ pc[t] = "in_scope"
    /\ op[t] \in ScopeKinds
    /\ stmts[t] < MaxStmts
    /\ stmts' = [stmts EXCEPT ![t] = @ + 1]
    /\ log' = [log EXCEPT ![t] = Append(@, <<"STMT", TRUE>>)]
    /\ IF txn[t]
         THEN pending' = [pending EXCEPT ![t] = @ + 1] /\ UNCHANGED store
         ELSE store' = [store EXCEPT ![t] = @ + 1] /\ UNCHANGED pending
    /\ UNCHANGED <<pgVars, clVars, histVars, taskVars, held, curOpen, txn, opOut,
                   diagSched, total_log_counts, offPg>>

\* the wrapped operation returns: a plain scope is left with its result, the
\* transaction wrapper goes on to COMMIT
op_return(t) ==
    /\ pc[t] = "in_scope"
    /\ op[t] \in ScopeKinds
    /\ opOut' = [opOut EXCEPT ![t] = "returned"]
    /\ IF op[t] = "transaction"
         THEN /\ pc' = [pc EXCEPT ![t] = "commit"]
              /\ UNCHANGED <<ret, held, curOpen, txn, pending>>
         ELSE /\ pc' = [pc EXCEPT ![t] = "done"]
              /\ ret' = [ret EXCEPT ![t] = "value"]
              /\ scope_exit(t, FALSE)
    /\ UNCHANGED <<pgVars, clVars, histVars, op, val, store, log, stmts, diagSched,
                   total_log_counts, offPg>>

\* the wrapped operation raises e: an Exception ("exc") or a BaseException that
\* is no Exception ("base"); the transaction wrapper catches the first, every
\* other scope is left with the failure
op_raise(t, e) ==
    /\ pc[t] = "in_scope"
    /\ op[t] \in ScopeKinds
    /\ opOut' = [opOut EXCEPT ![t] = e]
    /\ IF op[t] = "transaction" /\ Caught(e)
         THEN /\ pc' = [pc EXCEPT ![t] = "rollback"]
              /\ UNCHANGED <<ret, held, curOpen, txn, pending>>
         ELSE /\ pc' = [pc EXCEPT ![t] = "done"]
              /\ ret' = [ret EXCEPT ![t] = e]
              /\ scope_exit(t, TRUE)
    /\ UNCHANGED <<pgVars, clVars, histVars, op, val, store, log, stmts, diagSched,
                   total_log_counts, offPg>>

\* transaction, else branch: c.execute('COMMIT') (line 106); when it succeeds
\* the wrapper returns the result, when it raises the failure leaves the wrapper
txn_commit(t, ok) ==
    /\ pc[t] = "commit"
    /\ log' = [log EXCEPT ![t] = Append(@, <<StmtOnSuccess, ok>>)]
    /\ store' = [store EXCEPT ![t] = StoreAfter(StmtOnSuccess, ok, @, pending[t])]
    /\ scope_exit(t, ~ok)
    /\ pc' = [pc EXCEPT ![t] = "done"]
    /\ ret' = [ret EXCEPT ![t] = IF ok THEN "value" ELSE "exc"]
    /\ UNCHANGED <<pgVars, clVars, histVars, op, val, opOut, stmts, diagSched,
                   total_log_counts, offPg>>

\* transaction, except branch: c.execute('ROLLBACK') (line 104); when it
\* succeeds the wrapper ends without a return statement, when it raises the
\* failure leaves the wrapper
txn_rollback(t, ok) ==
    /\ pc[t] = "rollback"
    /\ log' = [log EXCEPT ![t] = Append(@, <<StmtOnFailure, ok>>)]
    /\ store' = [store EXCEPT ![t] = StoreAfter(StmtOnFailure, ok, @, pending[t])]
    /\ scope_exit(t, ~ok)
    /\ pc' = [pc EXCEPT ![t] = "done"]
    /\ ret' = [ret EXCEPT ![t] = IF ok THEN "None" ELSE "exc"]
    /\ UNCHANGED <<pgVars, clVars, histVars, op, val, opOut, stmts, diagSched,
                   total_log_counts, offPg>>

\* the task in which a failure of log_connection_pool_state is raised: started
\* with asyncio.async and never awaited, the coroutine fails in its own task
RaisedToMut(d) == 1
RaisedTo(d) == d

\* the rate limit of log_connection_pool_state (line 287), n being
\* int(time.time()); the ten minutes are RateWindow ticks of the clock
RateLimitedMut(n, last, count) == FALSE
RateLimited(n, last, count) == n - last < RateWindow /\ count > 0

\* a scheduled log_connection_pool_state starts (lines 282-310).  The two
\* semaphores are free whenever a task runs, since no holder is ever suspended,
\* so the reads, the test and the two updates happen without interruption.  Past
\* the rate limit it reads the pool: no pool is an AttributeError; no used
\* connection, it logs and ends; else run_query_on_separate_connection calls
\* get_cursor(.., False)
diag_start(d) ==
    /\ pc[d] = "idle"
    /\ diagSched > 0
    /\ diagSched' = diagSched - 1
    /\ op' = [op EXCEPT ![d] = "diag"]
    /\ IF RateLimited(now, last_log_timestamp, total_log_counts)
         THEN /\ pc' = [pc EXCEPT ![d] = "done"]
              /\ ret' = [ret EXCEPT ![d] = "None"]
              /\ UNCHANGED <<total_log_counts, last_log_timestamp, passes, val, returned>>
         ELSE /\ last_log_timestamp' = now
              /\ total_log_counts' = total_log_counts + 1
              /\ passes' = Append(passes, now)
              /\ IF PoolAbsent(pool)
                   THEN /\ pc' = [pc EXCEPT ![d] = "done"]
                        /\ ret' = [ret EXCEPT ![RaisedTo(d)] = "AttributeError"]
                        /\ UNCHANGED <<val, returned>>
                   ELSE IF PoolUsed = 0
                     THEN /\ pc' = [pc EXCEPT ![d] = "done"]
                          /\ ret' = [ret EXCEPT ![d] = "None"]
                          /\ UNCHANGED <<val, returned>>
                     ELSE get_cursor_enter(d, "diag")
    /\ UNCHANGED <<pgVars, clVars, createCalls, createFailed, created, usePoolCalled,
                   lateCall, held, curOpen, txn, pending, store, log, opOut, stmts,
                   now, kvSide>>

\* run_query_on_separate_connection: execute and fetchall on the dedicated
\* connection, then the scope is left; a row of the answer makes the loop read
\* process_detail.now_time, which the query does not select (lines 306, 327)
diag_query(d, ok, rows) ==
    /\ pc[d] = "in_scope"
    /\ op[d] = "diag"
    /\ log' = [log EXCEPT ![d] = Append(@, <<"QUERY", ok>>)]
    /\ scope_exit(d, ~ok)
    /\ pc' = [pc EXCEPT ![d] = "done"]
    /\ ret' = IF ok /\ ~rows
                THEN [ret EXCEPT ![d] = "None"]
                ELSE [ret EXCEPT ![RaisedTo(d)] = IF ok THEN "AttributeError" ELSE "exc"]
    /\ UNCHANGED <<pgVars, clVars, histVars, op, val, store, opOut, stmts, diagSched,
                   total_log_counts, offPg>>

\* the state after connect(database, .., use_pool=True or False) with the other
\* parameters left at their defaults; with the default refresh_period of -1 the
\* scheduled _periodic_cleansing ends at once and is left out of NextCursor
InitCursor ==
    /\ connection_params = 1
    /\ use_pool_flag \in {"True", "False"}
    /\ refresh_period = -1
    /\ pool = NoPool
    /\ pool_pending = 1
    /\ cl_sched = 0
    /\ cl_sleep = 0
    /\ cl_cleared = FALSE
    /\ cl_clearing = 0
    /\ cl_failed = FALSE
    /\ createCalls = 0
    /\ createFailed = 0
    /\ created = <<>>
    /\ returned = {}
    /\ usePoolCalled = FALSE
    /\ lateCall = FALSE
    /\ InitTasks /\ InitCurVars /\ InitRedisVars /\ InitClock /\ InitMemoVars /\ InitDataVars

NextCursor ==
    \/ \E t \in ScopeTasks, k \in ScopeKinds : scope_call(t, k)
    \/ \E t \in Tasks : get_pool_lock(t)
    \/ \E t \in Tasks : get_pool_created(t)
    \/ \E t \in Tasks : get_pool_create_failed(t)
    \/ \E t \in Tasks : db_connect_done(t)
    \/ \E t \in Tasks : db_connect_failed(t)
    \/ \E t \in Tasks : cursor_acquired(t)
    \/ \E t \in Tasks : cursor_timeout(t)
    \/ \E t \in Tasks, ok \in BOOLEAN : txn_begin(t, ok)
    \/ \E t \in Tasks : op_stmt(t)
    \/ \E t \in Tasks : op_return(t)
    \/ \E t \in Tasks, e \in {"exc", "base"} : op_raise(t, e)
    \/ \E t \in Tasks, ok \in BOOLEAN : txn_commit(t, ok)
    \/ \E t \in Tasks, ok \in BOOLEAN : txn_rollback(t, ok)
    \/ \E d \in DiagTasks : diag_start(d)
    \/ \E d \in DiagTasks, ok \in BOOLEAN, rows \in BOOLEAN : diag_query(d, ok, rows)

SpecCursor == InitCursor /\ [][NextCursor]_vars

\* ------------------------------------- the rate limit of the diagnostics

\* the tasks that run log_connection_pool_state in the specification of the
\* rate limit; task 1 is a request that holds a connection of the pool
DiagCallers == 2..NumTasks

\* time passes
tick ==
    /\ now < MaxTime
    /\ now' = now + 1
    /\ UNCHANGED <<pgVars, clVars, taskVars, histVars, curVars, kvSide,
                   last_log_timestamp, passes>>

\* asyncio.async(cls.log_connection_pool_state()): one more invocation is
\* scheduled, by a timeout (line 277) or by any other caller of the classmethod
diag_schedule ==
    /\ diagSched + Cardinality({d \in DiagCallers : pc[d] # "idle"}) < NumTasks - 1
    /\ diagSched' = diagSched + 1
    /\ UNCHANGED <<pgVars, clVars, taskVars, histVars, held, curOpen, txn, pending,
                   store, log, opOut, stmts, total_log_counts, offPg>>

\* the state after connect(.., use_pool=True), with the pool created and a
\* cursor scope of task 1 entered: one connection of the pool is in use
InitDiag ==
    /\ connection_params = 1
    /\ use_pool_flag = "True"
    /\ refresh_period = -1
    /\ pool = 1
    /\ pool_pending = 1
    /\ cl_sched = 0
    /\ cl_sleep = 0
    /\ cl_cleared = FALSE
    /\ cl_clearing = 0
    /\ cl_failed = FALSE
    /\ createCalls = 1
    /\ createFailed = 0
    /\ created = <<1>>
    /\ returned = {1}
    /\ usePoolCalled = FALSE
    /\ lateCall = FALSE
    /\ pc = [t \in Tasks |-> IF t = 1 THEN "in_scope" ELSE "idle"]
    /\ op = [t \in Tasks |-> IF t = 1 THEN "cursor" ELSE "none"]
    /\ ret = [t \in Tasks |-> IF t = 1 THEN "pool_made" ELSE "none"]
    /\ val = [t \in Tasks |-> IF t = 1 THEN 1 ELSE 0]
    /\ held = [t \in Tasks |-> IF t = 1 THEN "pooled" ELSE "none"]
    /\ curOpen = [t \in Tasks |-> t = 1]
    /\ txn = [t \in Tasks |-> FALSE]
    /\ pending = [t \in Tasks |-> 0]
    /\ store = [t \in Tasks |-> 0]
    /\ log = [t \in Tasks |-> <<>>]
    /\ opOut = [t \in Tasks |-> "none"]
    /\ stmts = [t \in Tasks |-> 0]
    /\ diagSched = 0
    /\ total_log_counts = 0
    /\ InitRedisVars /\ InitClock /\ InitMemoVars /\ InitDataVars

NextDiag ==
    \/ tick
    \/ diag_schedule
    \/ \E d \in DiagCallers : diag_start(d)
    \/ \E d \in DiagCallers : db_connect_done(d)
    \/ \E d \in DiagCallers : db_connect_failed(d)
    \/ \E d \in DiagCallers : cursor_acquired(d)
    \/ \E d \in DiagCallers : cursor_timeout(d)
    \/ \E d \in DiagCallers, ok \in BOOLEAN, rows \in BOOLEAN : diag_query(d, ok, rows)
    \/ \E t \in Tasks : op_return(t)

SpecDiag == InitDiag /\ [][NextDiag]_vars

\* ------------------------------------------------- src/vessel/redis_cache.py

\* the second `not cls._pool` / `not self._pool`, under the owner's lock
RPoolAbsentLockedMut(p) == TRUE
RPoolAbsentLocked(p) == PoolAbsent(p)

\* where `cls._pool` / `self._pool` of an owner is kept: RedisCache keeps it on the
\* class, RedisCacheV2.__init__ gives every instance its own
PoolSlotMut(o) == IF o \in Insts THEN 1 ELSE o
PoolSlot(o) == o

\* the pool an owner sees as its own
OwnerPool(o) == r_pool[PoolSlot(o)]

InitRedis == InitPgVars /\ InitTasks /\ InitCurVars /\ InitRedisVars /\ InitClock /\ InitMemoVars /\ InitDataVars

\* RedisCache.connect_v2: stores the parameters, creates nothing
connect_v2(c) ==
    /\ r_cfg' = c
    /\ UNCHANGED <<r_pool, r_lock, owner, r_made, r_creates, r_failed, r_madeFor,
                   r_connectCalls, r_lost, r_bound, taskVars>>
    /\ UNCHANGED offKv

\* RedisCache.connect: calls create_pool, whatever the state of _pool and _lock
r_connect_call(t) ==
    /\ pc[t] = "idle"
    /\ op' = [op EXCEPT ![t] = "connect"]
    /\ owner' = [owner EXCEPT ![t] = ClassOwner]
    /\ pc' = [pc EXCEPT ![t] = "connecting"]
    /\ r_connectCalls' = r_connectCalls + 1
    /\ UNCHANGED <<r_cfg, r_pool, r_lock, r_made, r_creates, r_failed, r_madeFor, r_lost,
                   r_bound, ret, val>>
    /\ UNCHANGED offKv

\* its create_pool returned: the pool is stored in RedisCache._pool (line 51)
r_connect_done(t) ==
    /\ pc[t] = "connecting"
    /\ r_made' = r_made + 1
    /\ r_pool' = [r_pool EXCEPT ![PoolSlot(ClassOwner)] = r_made + 1]
    /\ r_madeFor' = [r_madeFor EXCEPT ![ClassOwner] = @ + 1]
    /\ pc' = [pc EXCEPT ![t] = "done"]
    /\ ret' = [ret EXCEPT ![t] = "None"]
    /\ UNCHANGED <<r_cfg, r_lock, owner, r_creates, r_failed, r_connectCalls, r_lost,
                   r_bound, op, val>>
    /\ UNCHANGED offKv

\* its create_pool raised
r_connect_failed(t) ==
    /\ pc[t] = "connecting"
    /\ pc' = [pc EXCEPT ![t] = "done"]
    /\ ret' = [ret EXCEPT ![t] = "CreateError"]
    /\ UNCHANGED <<redisVars, op, val>>
    /\ UNCHANGED offKv

\* a key operation (set_key, get_key, delete, hmget, ..) of owner o starts:
\* `with (await cls.get_pool()) as redis`, get_pool() up to the wait for the
\* lock or, the pool being there, up to `return (await cls._pool)` (line 27),
\* which reads the pool the command is going to run on
r_op_call(t, o) ==
    /\ pc[t] = "idle"
    /\ op' = [op EXCEPT ![t] = "key_op"]
    /\ owner' = [owner EXCEPT ![t] = o]
    /\ pc' = [pc EXCEPT ![t] =
                IF PoolAbsent(r_pool[PoolSlot(o)]) THEN "r_wait_lock" ELSE "r_acquire"]
    /\ r_bound' = [r_bound EXCEPT ![t] =
                IF PoolAbsent(r_pool[PoolSlot(o)]) THEN @ ELSE r_pool[PoolSlot(o)]]
    /\ UNCHANGED <<r_cfg, r_pool, r_lock, r_made, r_creates, r_failed, r_madeFor,
                   r_connectCalls, r_lost, ret, val>>
    /\ UNCHANGED offKv

\* `with (await cls._lock)`: the owner's semaphore is taken, and with no
\* suspension in between the pool is checked again: the task leaves with the
\* pool, or calls create_pool and waits for it, holding the lock
r_get_pool_lock(t) ==
    /\ pc[t] = "r_wait_lock"
    /\ SemFree(r_lock[PoolSlot(owner[t])])
    /\ IF RPoolAbsentLocked(r_pool[PoolSlot(owner[t])])
         THEN /\ pc' = [pc EXCEPT ![t] = "r_creating"]
              /\ r_lock' = [r_lock EXCEPT ![PoolSlot(owner[t])] = @ - 1]
              /\ r_creates' = [r_creates EXCEPT ![owner[t]] = @ + 1]
              /\ UNCHANGED <<r_lost, r_bound>>
         ELSE /\ pc' = [pc EXCEPT ![t] = "r_acquire"]
              /\ r_lost' = [r_lost EXCEPT ![owner[t]] = @ + 1]
              /\ r_bound' = [r_bound EXCEPT ![t] = r_pool[PoolSlot(owner[t])]]
              /\ UNCHANGED <<r_lock, r_creates>>
    /\ UNCHANGED <<r_cfg, r_pool, owner, r_made, r_failed, r_madeFor, r_connectCalls,
                   op, ret, val>>
    /\ UNCHANGED offKv

\* create_pool returned: the pool is stored with its owner, the lock released,
\* and the pool just stored is the one `return (await cls._pool)` reads
r_get_pool_created(t) ==
    /\ pc[t] = "r_creating"
    /\ r_made' = r_made + 1
    /\ r_pool' = [r_pool EXCEPT ![PoolSlot(owner[t])] = r_made + 1]
    /\ r_madeFor' = [r_madeFor EXCEPT ![owner[t]] = @ + 1]
    /\ r_lock' = [r_lock EXCEPT ![PoolSlot(owner[t])] = @ + 1]
    /\ r_bound' = [r_bound EXCEPT ![t] = r_made + 1]
    /\ pc' = [pc EXCEPT ![t] = "r_acquire"]
    /\ UNCHANGED <<r_cfg, owner, r_creates, r_failed, r_connectCalls, r_lost, op, ret, val>>
    /\ UNCHANGED offKv

\* create_pool raised: the with block releases the lock, the failure propagates
r_get_pool_create_failed(t) ==
    /\ pc[t] = "r_creating"
    /\ r_failed' = [r_failed EXCEPT ![owner[t]] = @ + 1]
    /\ r_lock' = [r_lock EXCEPT ![PoolSlot(owner[t])] = AfterFailure(@)]
    /\ pc' = [pc EXCEPT ![t] = "done"]
    /\ ret' = [ret EXCEPT ![t] = "CreateError"]
    /\ UNCHANGED <<r_cfg, r_pool, owner, r_made, r_creates, r_madeFor, r_connectCalls,
                   r_lost, r_bound, op, val>>
    /\ UNCHANGED offKv

\* the pool get_pool() returned gives a connection; the command runs on it and
\* the with block gives it back, whatever pool the owner has by then
r_command(t) ==
    /\ pc[t] = "r_acquire"
    /\ val' = [val EXCEPT ![t] = r_bound[t]]
    /\ r_bound' = [r_bound EXCEPT ![t] = NoPool]
    /\ ret' = [ret EXCEPT ![t] = "ok"]
    /\ pc' = [pc EXCEPT ![t] = "done"]
    /\ UNCHANGED <<r_cfg, r_pool, r_lock, owner, r_made, r_creates, r_failed, r_madeFor,
                   r_connectCalls, r_lost, op>>
    /\ UNCHANGED offKv

\* the classmethods of RedisCacheV2 and the first argument given to them:
\* the pattern of scan, the namespace of the others
ClassOps == {"scan", "lpush", "llen", "lrange"}
FirstArgs == {<<>>, <<"n">>}

\* scan, lpush, llen or lrange of a RedisCacheV2 instance: they are classmethods
\* (lines 514-516, 572-590) and call cls.get_pool(), which is the instance
\* method get_pool(self) called without an instance: TypeError, before any pool
\* is looked at.  scan tests its pattern first (`if pattern_str:`, line 522) and
\* returns [] for the empty one (line 525)
r_class_op_call(t, o, name, arg) ==
    /\ pc[t] = "idle"
    /\ op' = [op EXCEPT ![t] = "class_op"]
    /\ owner' = [owner EXCEPT ![t] = o]
    /\ pc' = [pc EXCEPT ![t] = "done"]
    /\ ret' = [ret EXCEPT ![t] = IF name = "scan" /\ arg = <<>> THEN "[]" ELSE "TypeError"]
    /\ UNCHANGED <<r_cfg, r_pool, r_lock, r_made, r_creates, r_failed, r_madeFor,
                   r_connectCalls, r_lost, r_bound, val>>
    /\ UNCHANGED offKv

\* exit() of owner o (RedisCache.exit, lines 168-170; RedisCacheV2.exit does
\* the same with self._pool): without a pool it returns at once; with one it
\* calls pool.clear() and is suspended in it.  _pool is kept
r_exit(t, o) ==
    /\ pc[t] = "idle"
    /\ op' = [op EXCEPT ![t] = "exit"]
    /\ owner' = [owner EXCEPT ![t] = o]
    /\ IF PoolAbsent(r_pool[PoolSlot(o)])
         THEN /\ pc' = [pc EXCEPT ![t] = "done"]
              /\ ret' = [ret EXCEPT ![t] = "None"]
              /\ UNCHANGED val
         ELSE /\ pc' = [pc EXCEPT ![t] = "r_clearing"]
              /\ val' = [val EXCEPT ![t] = r_pool[PoolSlot(o)]]
              /\ UNCHANGED ret
    /\ UNCHANGED <<r_cfg, r_pool, r_lock, r_made, r_creates, r_failed, r_madeFor,
                   r_connectCalls, r_lost, r_bound>>
    /\ UNCHANGED offKv

\* pool.clear() of exit() ended: exit() returns None, or the failure of
\* clear() leaves it to the caller
r_exit_done(t, cleared) ==
    /\ pc[t] = "r_clearing"
    /\ pc' = [pc EXCEPT ![t] = "done"]
    /\ ret' = [ret EXCEPT ![t] = IF cleared THEN "None" ELSE "ClearError"]
    /\ UNCHANGED <<redisVars, op, val>>
    /\ UNCHANGED offKv

NextRedis ==
    \/ \E c \in Cfgs : connect_v2(c)
    \/ \E t \in Tasks : r_connect_call(t)
    \/ \E t \in Tasks : r_connect_done(t)
    \/ \E t \in Tasks : r_connect_failed(t)
    \/ \E t \in Tasks, o \in Owners : r_op_call(t, o)
    \/ \E t \in Tasks : r_get_pool_lock(t)
    \/ \E t \in Tasks : r_get_pool_created(t)
    \/ \E t \in Tasks : r_get_pool_create_failed(t)
    \/ \E t \in Tasks : r_command(t)
    \/ \E t \in Tasks, o \in Insts, name \in ClassOps, arg \in FirstArgs :
            r_class_op_call(t, o, name, arg)
    \/ \E t \in Tasks : r_exit(t, ClassOwner)
    \/ \E t \in Tasks, cleared \in BOOLEAN : r_exit_done(t, cleared)

SpecRedis == InitRedis /\ [][NextRedis]_vars

\* ------------------------------------------------ failing pool creation

\* connect() has been called; tasks call get_pool() of PostgresStore or a key
\* operation of RedisCache or of a RedisCacheV2 instance, and create_pool
\* returns a pool or raises
InitFail ==
    /\ connection_params \in Cfgs
    /\ use_pool_flag = "True"
    /\ refresh_period = -1
    /\ pool = NoPool
    /\ pool_pending = 1
    /\ cl_sched = 0
    /\ cl_sleep = 0
    /\ cl_cleared = FALSE
    /\ cl_clearing = 0
    /\ cl_failed = FALSE
    /\ createCalls = 0
    /\ createFailed = 0
    /\ created = <<>>
    /\ returned = {}
    /\ usePoolCalled = FALSE
    /\ lateCall = FALSE
    /\ InitTasks /\ InitCurVars /\ InitRedisVars /\ InitClock /\ InitMemoVars /\ InitDataVars

NextFail ==
    \/ \E t \in Tasks : get_pool_call(t)
    \/ \E t \in Tasks : get_pool_lock(t)
    \/ \E t \in Tasks : get_pool_created(t)
    \/ \E t \in Tasks : get_pool_create_failed(t)
    \/ \E t \in Tasks, o \in Owners : r_op_call(t, o)
    \/ \E t \in Tasks : r_get_pool_lock(t)
    \/ \E t \in Tasks : r_get_pool_created(t)
    \/ \E t \in Tasks : r_get_pool_create_failed(t)
    \/ \E t \in Tasks : r_command(t)

\* a free semaphore wakes a waiter, and create_pool returns or raises
FairFail ==
    /\ WF_vars(\E t \in Tasks : get_pool_lock(t))
    /\ WF_vars(\E t \in Tasks : get_pool_created(t) \/ get_pool_create_failed(t))
    /\ WF_vars(\E t \in Tasks : r_get_pool_lock(t))
    /\ WF_vars(\E t \in Tasks : r_get_pool_created(t) \/ r_get_pool_create_failed(t))

SpecFail == InitFail /\ [][NextFail]_vars /\ FairFail

\* ------------------------------------------------ memoization, the calls

\* the tasks that call the memoized function
MemoTasks == 1..NumMemo

\* the digest key of the task's call: the local digest_key (line 217)
KeyOf(t) == m_key[t]

\* a task calls the memoized function: the key is computed (lines 207-217) and
\* get_key / hmget is called; tasks are numbered in the order of their calls
memo_call(t, s) ==
    /\ pc[t] = "idle"
    /\ \A u \in MemoTasks : u < t => pc[u] # "idle"
    /\ op' = [op EXCEPT ![t] = "memo"]
    /\ m_sig' = [m_sig EXCEPT ![t] = s]
    /\ IF KeyFails(m_dec, s)
         THEN /\ pc' = [pc EXCEPT ![t] = "done"]
              /\ ret' = [ret EXCEPT ![t] = "TypeError"]
              /\ UNCHANGED <<m_key, m_seen>>
         ELSE /\ pc' = [pc EXCEPT ![t] = "m_get"]
              /\ m_key' = [m_key EXCEPT ![t] = DigestKey(m_dec, s)]
              /\ m_seen' = [m_seen EXCEPT ![t] = EntryOf(m_cache, m_key'[t]) # Nil]
              /\ UNCHANGED ret
    /\ UNCHANGED <<val, m_dec, m_fkind, m_cache, m_calls, m_val>>
    /\ UNCHANGED offMemo

\* the answer of redis: on a hit the call returns json.loads of the entry
\* (lines 218-220), on a miss it goes on to the wrapped function
memo_get(t) ==
    /\ pc[t] = "m_get"
    /\ IF Hit(EntryOf(m_cache, KeyOf(t)))
         THEN /\ pc' = [pc EXCEPT ![t] = "done"]
              /\ ret' = [ret EXCEPT ![t] = "hit"]
              /\ m_val' = [m_val EXCEPT ![t] = Loads(EntryOf(m_cache, KeyOf(t)))]
         ELSE /\ pc' = [pc EXCEPT ![t] = "m_func"]
              /\ UNCHANGED <<ret, m_val>>
    /\ UNCHANGED <<op, val, m_dec, m_fkind, m_cache, m_calls, m_sig, m_key, m_seen>>
    /\ UNCHANGED offMemo

\* what the function does when its body runs: it returns a value or raises
Outcomes == Values \cup {"raise"}

\* where the call is after the function has raised: the exception leaves
\* apply_cache at line 221, before set_key
AfterRaiseMut(t) == "m_set"
AfterRaise(t) == "done"

\* the wrapped function is called (lines 196, 221, 290-292, 564).  A plain
\* function runs to its end inside the call: it raises, or it returns r, which
\* cannot be awaited (TypeError) and which RedisCache.redis_cache_decorator_v2
\* takes as the result.  The call of an async def or of a generator coroutine
\* only makes the coroutine: awaited, its body starts and the task is suspended
\* in it; not awaited, the coroutine object is taken as the result
memo_func(t, r) ==
    /\ pc[t] = "m_func"
    /\ IF m_fkind = "plain"
         THEN /\ m_calls' = With(m_calls, KeyOf(t), CallsOf(m_calls, KeyOf(t)) + 1)
              /\ IF r = "raise"
                   THEN /\ pc' = [pc EXCEPT ![t] = AfterRaise(t)]
                        /\ ret' = [ret EXCEPT ![t] = "FuncError"]
                        /\ UNCHANGED m_val
                   ELSE IF Awaited(m_dec, m_fkind)
                   THEN /\ pc' = [pc EXCEPT ![t] = "done"]
                        /\ ret' = [ret EXCEPT ![t] = "TypeError"]
                        /\ UNCHANGED m_val
                   ELSE /\ pc' = [pc EXCEPT ![t] = "m_set"]
                        /\ m_val' = [m_val EXCEPT ![t] = r]
                        /\ UNCHANGED ret
         ELSE IF Awaited(m_dec, m_fkind)
         THEN /\ m_calls' = With(m_calls, KeyOf(t), CallsOf(m_calls, KeyOf(t)) + 1)
              /\ pc' = [pc EXCEPT ![t] = "m_body"]
              /\ UNCHANGED <<ret, m_val>>
         ELSE /\ pc' = [pc EXCEPT ![t] = "m_set"]
              /\ m_val' = [m_val EXCEPT ![t] = Coroutine]
              /\ UNCHANGED <<ret, m_calls>>
    /\ UNCHANGED <<op, val, m_dec, m_fkind, m_cache, m_sig, m_key, m_seen>>
    /\ UNCHANGED offMemo

\* the awaited body of the wrapped function ends: it returns r, which goes on
\* to json.dumps and set_key, or it raises, and the exception leaves
\* apply_cache to the caller
memo_func_ended(t, r) ==
    /\ pc[t] = "m_body"
    /\ IF r = "raise"
         THEN /\ pc' = [pc EXCEPT ![t] = AfterRaise(t)]
              /\ ret' = [ret EXCEPT ![t] = "FuncError"]
              /\ UNCHANGED m_val
         ELSE /\ pc' = [pc EXCEPT ![t] = "m_set"]
              /\ m_val' = [m_val EXCEPT ![t] = r]
              /\ UNCHANGED ret
    /\ UNCHANGED <<op, val, m_dec, m_fkind, m_cache, m_calls, m_sig, m_key, m_seen>>
    /\ UNCHANGED offMemo

\* json.dumps(result) and set_key / hmset (line 222), then `return result`: the
\* entry is written whatever redis held; a result json.dumps refuses ends the
\* call with TypeError and nothing written
memo_set(t) ==
    /\ pc[t] = "m_set"
    /\ pc' = [pc EXCEPT ![t] = "done"]
    /\ IF Serializable(m_val[t])
         THEN /\ m_cache' = With(m_cache, KeyOf(t),
                                   Written(EntryOf(m_cache, KeyOf(t)), Dumps(m_val[t])))
              /\ ret' = [ret EXCEPT ![t] = "miss"]
         ELSE /\ ret' = [ret EXCEPT ![t] = "TypeError"]
              /\ UNCHANGED m_cache
    /\ UNCHANGED <<op, val, m_dec, m_fkind, m_calls, m_sig, m_key, m_seen, m_val>>
    /\ UNCHANGED offMemo

\* a function of some kind has been wrapped by one of the decorators
InitMemo ==
    /\ m_dec \in Decorators
    /\ m_fkind \in FuncKinds
    /\ InitMemoRest
    /\ InitPgVars /\ InitTasks /\ InitCurVars /\ InitRedisVars /\ InitClock /\ InitDataVars

NextMemo ==
    \/ \E t \in MemoTasks, s \in Sigs : memo_call(t, s)
    \/ \E t \in MemoTasks : memo_get(t)
    \/ \E t \in MemoTasks, r \in Outcomes : memo_func(t, r)
    \/ \E t \in MemoTasks, r \in Outcomes : memo_func_ended(t, r)
    \/ \E t \in MemoTasks : memo_set(t)

SpecMemo == InitMemo /\ [][NextMemo]_vars

\* the key of calls that differ in the receiver or in one argument: a function
\* every decorator can run, which returns None
InitKey ==
    /\ m_dec \in Decorators
    /\ m_fkind = "generator"
    /\ InitMemoRest
    /\ InitPgVars /\ InitTasks /\ InitCurVars /\ InitRedisVars /\ InitClock /\ InitDataVars

NextKey ==
    \/ \E t \in MemoTasks, s \in KeySigs : memo_call(t, s)
    \/ \E t \in MemoTasks : memo_get(t)
    \/ \E t \in MemoTasks : memo_func(t, "None")
    \/ \E t \in MemoTasks : memo_func_ended(t, "None")
    \/ \E t \in MemoTasks : memo_set(t)

SpecKey == InitKey /\ [][NextKey]_vars

\* ------------------------------------------------ the keys, the operations

\* the frame of a key operation
offStore == <<pgSide, taskVars, clockVars, redisVars, memoVars, queryVars>>

\* the keys created while the sweep stands between KEYS and DEL
LateAfterSet(key) ==
    IF kv_pc = "listed" /\ kv_store[key] = Nil /\ IsPrefix(kv_pat, key)
    THEN kv_late \cup {key} ELSE kv_late

\* set_key (lines 53-67): SET key value
kv_set_key(k, v, ns) ==
    LET key == RedisKey("set_key", ns, k) IN
    /\ kv_store' = [kv_store EXCEPT ![key] = v]
    /\ kv_last' = [name |-> "set_key", ns |-> ns, k |-> k, v |-> v]
    /\ kv_res' = "None"
    /\ kv_wrote' = key
    /\ kv_late' = LateAfterSet(key)
    /\ UNCHANGED <<kv_sweep, kv_pc, kv_pat, kv_listed, kv_since>>
    /\ UNCHANGED offStore

\* the decimal digits
Digits == <<"0", "1", "2", "3", "4", "5", "6", "7", "8", "9">>

\* the counters INCR and INCRBY keep: the decimal text of an integer, here of
\* one digit and at most MaxCount
MaxCount == 2
Amounts == {1, 2}
\* the namespaces of the counters that run beside the other key operations
CountedNamespaces == {<<"n">>}
CountText(n) == Digits[n + 1]
IsCount(v) == \E n \in 0..9 : CountText(n) = v
CountOf(v) == CHOOSE n \in 0..9 : CountText(n) = v

\* what INCRBY key n finds: a key that does not exist counts as 0
Counts(old) == old = Nil \/ IsCount(old)
CountFound(old) == IF old = Nil THEN 0 ELSE CountOf(old)

\* increment_value (lines 69-75): INCR key; a value that is no integer is left
\* as it is and the command fails
kv_increment_value(k, ns) ==
    LET key == RedisKey("increment_value", ns, k) IN
    /\ kv_last' = [name |-> "increment_value", ns |-> ns, k |-> k, v |-> "none"]
    /\ kv_wrote' = key
    /\ IF Counts(kv_store[key])
         THEN /\ CountFound(kv_store[key]) + 1 <= MaxCount
              /\ kv_store' = [kv_store EXCEPT ![key] = CountText(CountFound(@) + 1)]
              /\ kv_res' = "None"
              /\ kv_late' = LateAfterSet(key)
         ELSE /\ kv_res' = "ReplyError"
              /\ UNCHANGED <<kv_store, kv_late>>
    /\ UNCHANGED <<kv_sweep, kv_pc, kv_pat, kv_listed, kv_since>>
    /\ UNCHANGED offStore

\* increment_by_value (lines 78-84): INCRBY key value
kv_increment_by_value(k, n, ns) ==
    LET key == RedisKey("increment_by_value", ns, k) IN
    /\ kv_last' = [name |-> "increment_by_value", ns |-> ns, k |-> k, v |-> CountText(n)]
    /\ kv_wrote' = key
    /\ IF Counts(kv_store[key])
         THEN /\ CountFound(kv_store[key]) + n <= MaxCount
              /\ kv_store' = [kv_store EXCEPT ![key] = CountText(CountFound(@) + n)]
              /\ kv_res' = "None"
              /\ kv_late' = LateAfterSet(key)
         ELSE /\ kv_res' = "ReplyError"
              /\ UNCHANGED <<kv_store, kv_late>>
    /\ UNCHANGED <<kv_sweep, kv_pc, kv_pat, kv_listed, kv_since>>
    /\ UNCHANGED offStore

\* set_key_if_not_exists (lines 86-100): SET key value NX, True if it was set
\* and False if the key exists (line 90)
kv_set_key_if_not_exists(k, v, ns) ==
    LET key == RedisKey("set_key_if_not_exists", ns, k) IN
    /\ kv_last' = [name |-> "set_key_if_not_exists", ns |-> ns, k |-> k, v |-> v]
    /\ kv_wrote' = key
    /\ IF kv_store[key] = Nil
         THEN /\ kv_store' = [kv_store EXCEPT ![key] = v]
              /\ kv_res' = "True"
              /\ kv_late' = LateAfterSet(key)
         ELSE /\ kv_res' = "False"
              /\ UNCHANGED <<kv_store, kv_late>>
    /\ UNCHANGED <<kv_sweep, kv_pc, kv_pat, kv_listed, kv_since>>
    /\ UNCHANGED offStore

\* get_key (lines 102-108): GET key, None for a key that does not exist
kv_get_key(k, ns) ==
    LET key == RedisKey("get_key", ns, k) IN
    /\ kv_last' = [name |-> "get_key", ns |-> ns, k |-> k, v |-> "none"]
    /\ kv_wrote' = key
    /\ kv_res' = IF kv_store[key] = Nil THEN "None"
                ELSE IF kv_store[key] \in {ListValue, HashValue} THEN "ReplyError"
                ELSE kv_store[key]
    /\ UNCHANGED <<kv_store, kv_sweep, kv_pc, kv_pat, kv_listed, kv_since, kv_late>>
    /\ UNCHANGED offStore

\* hmset (lines 116-120): HMSET namespace field value; the key of the hash is
\* the namespace, and None is no key
kv_hmset(field, v, ns) ==
    /\ kv_last' = [name |-> "hmset", ns |-> ns, k |-> <<field>>, v |-> v]
    /\ IF ns = None
         THEN /\ kv_res' = "TypeError"
              /\ UNCHANGED <<kv_store, kv_wrote, kv_late>>
         ELSE /\ kv_wrote' = ns
              /\ IF kv_store[ns] \in {Nil, HashValue}
                   THEN /\ kv_store' = [kv_store EXCEPT ![ns] = HashValue]
                        /\ kv_res' = "None"
                        /\ kv_late' = LateAfterSet(ns)
                   ELSE /\ kv_res' = "ReplyError"
                        /\ UNCHANGED <<kv_store, kv_late>>
    /\ UNCHANGED <<kv_sweep, kv_pc, kv_pat, kv_listed, kv_since>>
    /\ UNCHANGED offStore

\* hdel (lines 130-134): HDEL namespace key, which removes the field and, with
\* its last field, the hash; with None for the namespace nothing is sent
kv_hdel(field, ns) ==
    /\ kv_last' = [name |-> "hdel", ns |-> ns, k |-> <<field>>, v |-> "none"]
    /\ IF ns = None
         THEN /\ kv_res' = "None"
              /\ UNCHANGED <<kv_store, kv_wrote, kv_since, kv_late>>
         ELSE /\ kv_wrote' = ns
              /\ IF kv_store[ns] \in {Nil, HashValue}
                   THEN /\ kv_store' = [kv_store EXCEPT ![ns] = Nil]
                        /\ kv_res' = "None"
                        /\ kv_since' = kv_since \ {ns}
                        /\ kv_late' = kv_late \ {ns}
                   ELSE /\ kv_res' = "ReplyError"
                        /\ UNCHANGED <<kv_store, kv_since, kv_late>>
    /\ UNCHANGED <<kv_sweep, kv_pc, kv_pat, kv_listed>>
    /\ UNCHANGED offStore

\* lpush (lines 300-305): the key is always namespace + ':' + key, which raises
\* TypeError for None before any pool is looked at; LPUSH key value makes the
\* list if the key does not exist and returns the length of the list
kv_lpush(ns, k, v) ==
    /\ kv_last' = [name |-> "lpush", ns |-> ns, k |-> k, v |-> v]
    /\ IF ns = None
         THEN /\ kv_res' = "TypeError"
              /\ UNCHANGED <<kv_store, kv_wrote, kv_late>>
         ELSE LET key == GetKey(ns, k) IN
              /\ kv_wrote' = key
              /\ IF kv_store[key] \in {Nil, ListValue}
                   THEN /\ kv_store' = [kv_store EXCEPT ![key] = ListValue]
                        /\ kv_res' = "length"
                        /\ kv_late' = LateAfterSet(key)
                   ELSE /\ kv_res' = "ReplyError"
                        /\ UNCHANGED <<kv_store, kv_late>>
    /\ UNCHANGED <<kv_sweep, kv_pc, kv_pat, kv_listed, kv_since>>
    /\ UNCHANGED offStore

\* run_lua (lines 227-236): with no script nothing is sent and None returned;
\* else EVAL script with the keys named under the namespace if it is not empty
kv_run_lua(script, k, v, ns) ==
    LET key == RedisKey("run_lua", ns, k) IN
    /\ kv_last' = [name |-> "run_lua", ns |-> ns, k |-> k, v |-> v]
    /\ IF script = <<>>
         THEN /\ kv_res' = "None"
              /\ UNCHANGED <<kv_store, kv_wrote, kv_late>>
         ELSE /\ kv_wrote' = key
              /\ kv_store' = [kv_store EXCEPT ![key] = v]
              /\ kv_res' = "OK"
              /\ kv_late' = LateAfterSet(key)
    /\ UNCHANGED <<kv_sweep, kv_pc, kv_pat, kv_listed, kv_since>>
    /\ UNCHANGED offStore

\* delete (lines 122-128): DEL key
kv_delete(k, ns) ==
    LET key == RedisKey("delete", ns, k) IN
    /\ kv_last' = [name |-> "delete", ns |-> ns, k |-> k, v |-> "none"]
    /\ kv_wrote' = key
    /\ kv_res' = "None"
    /\ kv_store' = [kv_store EXCEPT ![key] = Nil]
    /\ kv_since' = kv_since \ {key}
    /\ kv_late' = kv_late \ {key}
    /\ UNCHANGED <<kv_sweep, kv_pc, kv_pat, kv_listed>>
    /\ UNCHANGED offStore

\* the call begins; it suspends in get_pool before KEYS is sent (line 153)
SweepBegins(name, ns, p) ==
    /\ kv_pc \in {"idle", "done"}
    /\ kv_pc' = "called"
    /\ kv_sweep' = [name |-> name, ns |-> ns]
    /\ kv_pat' = p
    /\ kv_since' = {key \in StoredKeys : kv_store[key] # Nil /\ IsPrefix(p, key)}
    /\ kv_listed' = {}
    /\ kv_late' = {}
    /\ UNCHANGED <<kv_store, kv_last, kv_res, kv_wrote>>
    /\ UNCHANGED offStore

\* clear_namespace (lines 142-146): the pattern is namespace + '*'; with None
\* for the namespace the concatenation raises TypeError
clear_namespace(ns) ==
    IF ns = None
    THEN /\ kv_pc \in {"idle", "done"}
         /\ kv_pc' = "done"
         /\ kv_res' = "TypeError"
         /\ kv_sweep' = [name |-> "clear_namespace", ns |-> ns]
         /\ kv_listed' = {}
         /\ kv_since' = {}
         /\ kv_late' = {}
         /\ UNCHANGED <<kv_store, kv_last, kv_wrote, kv_pat>>
         /\ UNCHANGED offStore
    ELSE SweepBegins("clear_namespace", ns, ns)

\* delete_by_prefix (lines 159-164): the pattern is the prefix, after
\* namespace + ':' if the namespace is not empty, and '*'
delete_by_prefix(prefix, ns) ==
    SweepBegins("delete_by_prefix", ns,
                IF ns # None /\ ns # <<>> THEN GetKey(ns, prefix) ELSE prefix)

\* _delete_by_pattern, line 154: KEYS pattern
sweep_keys ==
    /\ kv_pc = "called"
    /\ kv_pc' = "listed"
    /\ kv_listed' = KeysMatching(kv_store, kv_pat)
    /\ UNCHANGED <<kv_store, kv_last, kv_sweep, kv_res, kv_wrote, kv_pat, kv_since, kv_late>>
    /\ UNCHANGED offStore

\* _delete_by_pattern, lines 155-157: DEL of the keys listed, if any, and the
\* number of them returned
sweep_delete ==
    /\ kv_pc = "listed"
    /\ kv_pc' = "done"
    /\ kv_store' = Deleted(kv_store, SweepTargets(kv_listed, kv_store, kv_pat))
    /\ kv_res' = "count"
    /\ UNCHANGED <<kv_last, kv_sweep, kv_wrote, kv_pat, kv_listed, kv_since, kv_late>>
    /\ UNCHANGED offStore

InitKv == InitPgVars /\ InitTasks /\ InitCurVars /\ InitRedisVars /\ InitClock /\ InitMemoVars /\ InitDataVars

NextKv ==
    \/ \E k \in KeyNames, v \in KvValues, ns \in Namespaces : kv_set_key(k, v, ns)
    \/ \E k \in KeyNames, v \in KvValues, ns \in Namespaces : kv_set_key_if_not_exists(k, v, ns)
    \/ \E k \in KeyNames, ns \in CountedNamespaces : kv_increment_value(k, ns)
    \/ \E k \in KeyNames, n \in Amounts, ns \in CountedNamespaces :
            kv_increment_by_value(k, n, ns)
    \/ \E k \in KeyNames, ns \in Namespaces : kv_get_key(k, ns)
    \/ \E k \in KeyNames, ns \in Namespaces : kv_delete(k, ns)
    \/ \E ns \in Namespaces : clear_namespace(ns)
    \/ \E prefix \in Prefixes, ns \in Namespaces : delete_by_prefix(prefix, ns)
    \/ sweep_keys
    \/ sweep_delete

SpecKv == InitKv /\ [][NextKv]_vars

\* keys, a list and a hash are written in several namespaces and namespaces
\* are cleared
NextNs ==
    \/ \E k \in KeyNames, ns \in ClearedNamespaces : kv_set_key(k, "v1", ns)
    \/ \E field \in Fields : kv_hmset(field, "v1", <<"n">>)
    \/ \E field \in Fields : kv_hdel(field, <<"n">>)
    \/ \E k \in KeyNames : kv_lpush(<<"n">>, k, "v1")
    \/ \E ns \in ClearedNamespaces : clear_namespace(ns)
    \/ sweep_keys
    \/ sweep_delete

SpecNs == InitKv /\ [][NextNs]_vars

\* every operation that names one key, and no sweep
NextWrite ==
    \/ \E k \in KeyNames, v \in KvValues, ns \in Namespaces : kv_set_key(k, v, ns)
    \/ \E k \in KeyNames, v \in KvValues, ns \in Namespaces : kv_set_key_if_not_exists(k, v, ns)
    \/ \E k \in KeyNames, ns \in Namespaces : kv_increment_value(k, ns)
    \/ \E k \in KeyNames, n \in Amounts, ns \in Namespaces : kv_increment_by_value(k, n, ns)
    \/ \E k \in KeyNames, ns \in Namespaces : kv_get_key(k, ns)
    \/ \E k \in KeyNames, ns \in Namespaces : kv_delete(k, ns)
    \/ \E field \in Fields, v \in KvValues, ns \in Namespaces : kv_hmset(field, v, ns)
    \/ \E field \in Fields, ns \in Namespaces : kv_hdel(field, ns)
    \/ \E k \in KeyNames, v \in KvValues, ns \in Namespaces : kv_lpush(ns, k, v)
    \/ \E script \in Scripts, k \in KeyNames, v \in KvValues, ns \in Namespaces :
            kv_run_lua(script, k, v, ns)

SpecWrite == InitKv /\ [][NextWrite]_vars

\* ------------------------------------------------ the statements, the data

\* the text of a statement is the sequence of its characters; a template of
\* str.format is the sequence of the texts between its {} fields
\* _insert_string = "insert into {} ({}) values ({}) returning *;" (line 116)
insert_string ==
    <<<<"i", "n", "s", "e", "r", "t", " ", "i", "n", "t", "o", " ">>,
      <<" ", "(">>,
      <<")", " ", "v", "a", "l", "u", "e", "s", " ", "(">>,
      <<")", " ", "r", "e", "t", "u", "r", "n", "i", "n", "g", " ", "*", ";">>>>
\* _select_all_string_with_condition = "select * from {} where ({}) limit {} offset {};" (line 119)
select_all_string_with_condition ==
    <<<<"s", "e", "l", "e", "c", "t", " ", "*", " ", "f", "r", "o", "m", " ">>,
      <<" ", "w", "h", "e", "r", "e", " ", "(">>,
      <<")", " ", "l", "i", "m", "i", "t", " ">>,
      <<" ", "o", "f", "f", "s", "e", "t", " ">>,
      <<";">>>>
\* _select_all_string = "select * from {} limit {} offset {};" (line 120)
select_all_string ==
    <<<<"s", "e", "l", "e", "c", "t", " ", "*", " ", "f", "r", "o", "m", " ">>,
      <<" ", "l", "i", "m", "i", "t", " ">>,
      <<" ", "o", "f", "f", "s", "e", "t", " ">>,
      <<";">>>>
\* _select_selective_column = "select {} from {} limit {} offset {};" (line 121)
select_selective_column ==
    <<<<"s", "e", "l", "e", "c", "t", " ">>,
      <<" ", "f", "r", "o", "m", " ">>,
      <<" ", "l", "i", "m", "i", "t", " ">>,
      <<" ", "o", "f", "f", "s", "e", "t", " ">>,
      <<";">>>>
\* _select_selective_column_with_condition = "select {} from {} where ({}) limit {} offset {};" (line 122)
select_selective_column_with_condition ==
    <<<<"s", "e", "l", "e", "c", "t", " ">>,
      <<" ", "f", "r", "o", "m", " ">>,
      <<" ", "w", "h", "e", "r", "e", " ", "(">>,
      <<")", " ", "l", "i", "m", "i", "t", " ">>,
      <<" ", "o", "f", "f", "s", "e", "t", " ">>,
      <<";">>>>
\* _select_all_string_with_condition_and_order_by = "select * from {} where ({}) order by {} limit {} offset {};" (line 123)
select_all_string_with_condition_and_order_by ==
    <<<<"s", "e", "l", "e", "c", "t", " ", "*", " ", "f", "r", "o", "m", " ">>,
      <<" ", "w", "h", "e", "r", "e", " ", "(">>,
      <<")", " ", "o", "r", "d", "e", "r", " ", "b", "y", " ">>,
      <<" ", "l", "i", "m", "i", "t", " ">>,
      <<" ", "o", "f", "f", "s", "e", "t", " ">>,
      <<";">>>>
\* _select_all_string_with_order_by = "select * from {} order by {} limit {} offset {};" (line 124)
select_all_string_with_order_by ==
    <<<<"s", "e", "l", "e", "c", "t", " ", "*", " ", "f", "r", "o", "m", " ">>,
      <<" ", "o", "r", "d", "e", "r", " ", "b", "y", " ">>,
      <<" ", "l", "i", "m", "i", "t", " ">>,
      <<" ", "o", "f", "f", "s", "e", "t", " ">>,
      <<";">>>>
\* _select_selective_column_with_order_by = "select {} from {} order by {} limit {} offset {};" (line 125)
select_selective_column_with_order_by ==
    <<<<"s", "e", "l", "e", "c", "t", " ">>,
      <<" ", "f", "r", "o", "m", " ">>,
      <<" ", "o", "r", "d", "e", "r", " ", "b", "y", " ">>,
      <<" ", "l", "i", "m", "i", "t", " ">>,
      <<" ", "o", "f", "f", "s", "e", "t", " ">>,
      <<";">>>>
\* _select_selective_column_with_condition_and_order_by = "select {} from {} where ({}) order by {} limit {} offset {};" (line 126)
select_selective_column_with_condition_and_order_by ==
    <<<<"s", "e", "l", "e", "c", "t", " ">>,
      <<" ", "f", "r", "o", "m", " ">>,
      <<" ", "w", "h", "e", "r", "e", " ", "(">>,
      <<")", " ", "o", "r", "d", "e", "r", " ", "b", "y", " ">>,
      <<" ", "l", "i", "m", "i", "t", " ">>,
      <<" ", "o", "f", "f", "s", "e", "t", " ">>,
      <<";">>>>
\* _delete_query = "delete from {} where ({});" (line 127)
delete_query ==
    <<<<"d", "e", "l", "e", "t", "e", " ", "f", "r", "o", "m", " ">>,
      <<" ", "w", "h", "e", "r", "e", " ", "(">>,
      <<")", ";">>>>
\* _update_string = "update {} set ({}) = ({}) where ({}) returning *;" (line 118)
update_string ==
    <<<<"u", "p", "d", "a", "t", "e", " ">>,
      <<" ", "s", "e", "t", " ", "(">>,
      <<")", " ", "=", " ", "(">>,
      <<")", " ", "w", "h", "e", "r", "e", " ", "(">>,
      <<")", " ", "r", "e", "t", "u", "r", "n", "i", "n", "g", " ", "*", ";">>>>
\* _WHERE_AND = "{} {} %s" (line 134)
WHERE_AND ==
    <<<<>>,
      <<" ">>,
      <<" ", "%", "s">>>>
\* _OR = ' or ' (line 130)
OR == <<" ", "o", "r", " ">>
\* _AND = ' and ' (line 131)
AND == <<" ", "a", "n", "d", " ">>
\* _LPAREN = '(' (line 132)
LPAREN == <<"(">>
\* _RPAREN = ')' (line 133)
RPAREN == <<")">>
\* _PLACEHOLDER = ' %s,' (line 135)
PLACEHOLDER == <<" ", "%", "s", ",">>
\* _COMMA = ', ' (line 136)
COMMA == <<",", " ">>

\* template.format(*args): the fields filled from left to right
RECURSIVE Format(_, _)
Format(template, args) ==
    IF args = <<>> THEN template[1]
    ELSE template[1] \o args[1] \o Format(Tail(template), Tail(args))

\* text * n
RECURSIVE Times(_, _)
Times(text, n) == IF n = 0 THEN <<>> ELSE text \o Times(text, n - 1)

\* text[:-1]
ButLast(text) == IF text = <<>> THEN <<>> ELSE SubSeq(text, 1, Len(text) - 1)

\* str(n), which format applies to limit and offset
RECURSIVE IntStr(_)
IntStr(n) == IF n < 10 THEN <<Digits[n + 1]>> ELSE IntStr(n \div 10) \o <<Digits[(n % 10) + 1]>>

\* the concatenation of a sequence of sequences
RECURSIVE Concat(_)
Concat(seqs) == IF seqs = <<>> THEN <<>> ELSE seqs[1] \o Concat(Tail(seqs))

\* names, operators and values of the inputs
TableNames == {<<"t">>}
Columns == {<<"a">>, <<"b">>}
Operators == {<<">">>, <<"=">>}
BoundValues == {1, 2}
InsertColumns == {<<"x">>, <<"y">>}

\* a dict is the sequence of its items, in iteration order, with distinct keys
Items(cols, rng) ==
    {<<>>} \cup {<<[key |-> c, val |-> v]>> : c \in cols, v \in rng}
           \cup {<<[key |-> p[1], val |-> v], [key |-> p[2], val |-> w]>> :
                   p \in {pp \in cols \X cols : pp[1] # pp[2]}, v \in rng, w \in rng}

\* a filter group: column -> (operator, value)
Conditions == [op : Operators, value : BoundValues]
Groups == Items(Columns, Conditions)
\* where_keys: a list of groups; the empty list stands for None as well
RECURSIVE ListsOf(_, _)
ListsOf(S, n) ==
    IF n = 0 THEN {<<>>}
    ELSE ListsOf(S, n - 1) \cup {Append(l, g) : l \in {m \in ListsOf(S, n - 1) : Len(m) = n - 1}, g \in S}
Filters == ListsOf(Groups, MaxGroups)

\* the values mapping of insert
ValueMaps == Items(InsertColumns, BoundValues)

\* make_and_query (lines 453-456): the conditions of one group joined by
\* ' and ', in parentheses
WhereAndOf(item) == Format(WHERE_AND, <<item.key, item.val.op>>)
make_and_queryMut(ele) == Join(AND, [i \in DOMAIN ele |-> WhereAndOf(ele[i])])
make_and_query(ele) == LPAREN \o Join(AND, [i \in DOMAIN ele |-> WhereAndOf(ele[i])]) \o RPAREN

\* the values make_and_query adds to the list (line 455)
ValueOf(item) == item.val.value
GroupValuesMut(ele) == [i \in DOMAIN ele |-> ValueOf(ele[Len(ele) + 1 - i])]
GroupValues(ele) == [i \in DOMAIN ele |-> ValueOf(ele[i])]

\* _get_where_clause_with_values (lines 449-458)
get_where_clause_with_values(where_keys) ==
    [clause |-> Join(OR, [i \in DOMAIN where_keys |-> make_and_query(where_keys[i])]),
     values |-> Concat([i \in DOMAIN where_keys |-> GroupValues(where_keys[i])])]

\* select (lines 509-539): the statement and the values given to cur.execute
SelectQuery(table, order_by, columns, where_keys, limit, offset) ==
    LET columns_string == Join(COMMA, columns)
        w == get_where_clause_with_values(where_keys)
        l == IntStr(limit)
        o == IntStr(offset)
    IN
    IF columns # <<>>
    THEN IF where_keys # <<>>
         THEN [q |-> IF order_by # <<>>
                     THEN Format(select_selective_column_with_condition_and_order_by,
                                 <<columns_string, table, w.clause, order_by, l, o>>)
                     ELSE Format(select_selective_column_with_condition,
                                 <<columns_string, table, w.clause, l, o>>),
               t |-> w.values]
         ELSE [q |-> IF order_by # <<>>
                     THEN Format(select_selective_column_with_order_by,
                                 <<columns_string, table, order_by, l, o>>)
                     ELSE Format(select_selective_column, <<columns_string, table, l, o>>),
               t |-> <<>>]
    ELSE IF where_keys # <<>>
         THEN [q |-> IF order_by # <<>>
                     THEN Format(select_all_string_with_condition_and_order_by,
                                 <<table, w.clause, order_by, l, o>>)
                     ELSE Format(select_all_string_with_condition, <<table, w.clause, l, o>>),
               t |-> w.values]
         ELSE [q |-> IF order_by # <<>>
                     THEN Format(select_all_string_with_order_by, <<table, order_by, l, o>>)
                     ELSE Format(select_all_string, <<table, l, o>>),
               t |-> <<>>]

\* the placeholders of insert (line 394, and [:-1] of line 395)
KeyOfItem(item) == item.key
ValOfItem(item) == item.val
PlaceholdersMut(values) == Times(PLACEHOLDER, Len(values))
Placeholders(values) == ButLast(Times(PLACEHOLDER, Len(values)))

\* insert (lines 393-396)
InsertQuery(table, values) ==
    [q |-> Format(insert_string, <<table, Join(COMMA, [i \in DOMAIN values |-> KeyOfItem(values[i])]), Placeholders(values)>>),
     t |-> [i \in DOMAIN values |-> ValOfItem(values[i])]]

\* delete (lines 479-481): the one template, whatever the filter
DeleteQueryMut(table, where_keys) ==
    LET w == get_where_clause_with_values(where_keys) IN
    [q |-> IF where_keys = <<>>
           THEN delete_query[1] \o table \o <<";">>
           ELSE Format(delete_query, <<table, w.clause>>),
     t |-> w.values]
DeleteQuery(table, where_keys) ==
    LET w == get_where_clause_with_values(where_keys) IN
    [q |-> Format(delete_query, <<table, w.clause>>), t |-> w.values]

\* update (lines 441-446): the values of the mapping, then those of the filter
UpdateQuery(table, values, where_keys) ==
    LET w == get_where_clause_with_values(where_keys) IN
    [q |-> Format(update_string,
                  <<table, Join(COMMA, [i \in DOMAIN values |-> KeyOfItem(values[i])]),
                    ButLast(Times(PLACEHOLDER, Len(values))), w.clause>>),
     t |-> [i \in DOMAIN values |-> ValOfItem(values[i])] \o w.values]

\* the values mappings given to update
UpdateMaps == {<<[key |-> <<"x">>, val |-> 1]>>,
               <<[key |-> <<"x">>, val |-> 1], [key |-> <<"y">>, val |-> 2]>>}

\* the arguments of select other than the filter
ColumnLists == {<<>>, <<<<"a">>, <<"b">>>>}
OrderBys == {<<>>, <<"a">>}
\* limit and offset: the defaults, and values given
Pages == {[limit |-> 100, offset |-> 0], [limit |-> 10, offset |-> 5]}

NoArgs == [name |-> "none", table |-> <<>>, order_by |-> <<>>, columns |-> <<>>,
           where_keys |-> <<>>, values |-> <<>>, limit |-> 0, offset |-> 0]

\* the frame of a query method
offQuery == <<pgSide, taskVars, clockVars, redisVars, memoVars, storeVars>>

\* cur.execute(q, t) of a query method
Executes(call, stmt) ==
    /\ q_pc = "idle"
    /\ q_pc' = "executed"
    /\ q_call' = call
    /\ q_text' = stmt.q
    /\ q_vals' = stmt.t
    /\ UNCHANGED offQuery

\* a direct call of _get_where_clause_with_values, as count, update, delete and
\* select make it
q_where ==
    /\ q_pc = "idle"
    /\ \E where_keys \in Filters :
         LET w == get_where_clause_with_values(where_keys) IN
         Executes([NoArgs EXCEPT !.name = "where", !.where_keys = where_keys],
                  [q |-> w.clause, t |-> w.values])

q_select ==
    /\ q_pc = "idle"
    /\ \E table \in TableNames, order_by \in OrderBys, columns \in ColumnLists,
          where_keys \in Filters, page \in Pages :
         Executes([NoArgs EXCEPT !.name = "select", !.table = table, !.order_by = order_by,
                                 !.columns = columns, !.where_keys = where_keys,
                                 !.limit = page.limit, !.offset = page.offset],
                  SelectQuery(table, order_by, columns, where_keys, page.limit, page.offset))

q_insert ==
    /\ q_pc = "idle"
    /\ \E table \in TableNames, values \in ValueMaps :
         Executes([NoArgs EXCEPT !.name = "insert", !.table = table, !.values = values],
                  InsertQuery(table, values))

q_delete ==
    /\ q_pc = "idle"
    /\ \E table \in TableNames, where_keys \in Filters :
         Executes([NoArgs EXCEPT !.name = "delete", !.table = table, !.where_keys = where_keys],
                  DeleteQuery(table, where_keys))

q_update ==
    /\ q_pc = "idle"
    /\ \E table \in TableNames, values \in UpdateMaps, where_keys \in Filters :
         Executes([NoArgs EXCEPT !.name = "update", !.table = table, !.values = values,
                                 !.where_keys = where_keys],
                  UpdateQuery(table, values, where_keys))

\* the method returns
q_return ==
    /\ q_pc = "executed"
    /\ q_pc' = "idle"
    /\ q_call' = NoArgs
    /\ q_text' = <<>>
    /\ q_vals' = <<>>
    /\ UNCHANGED offQuery

InitQuery == InitPgVars /\ InitTasks /\ InitCurVars /\ InitRedisVars /\ InitClock /\ InitMemoVars /\ InitDataVars

NextQuery ==
    \/ q_where
    \/ q_select
    \/ q_insert
    \/ q_delete
    \/ q_update
    \/ q_return

SpecQuery == InitQuery /\ [][NextQuery]_vars

\* ------------------------------------------------------------------ C1
\* C1: after connect(), with no pool yet, any number of concurrent get_pool()
\* calls invoke create_pool exactly once and all return the same pool (the
\* setting of the claim: create_pool does not fail and nobody installs a pool
\* with use_pool).
C1_OneCreation ==
    (createFailed = 0 /\ ~usePoolCalled) =>
        /\ createCalls <= 1
        /\ Cardinality(returned) <= 1
        /\ (returned # {} => createCalls = 1)
        /\ \A t \in Tasks : ret[t] \in PoolResults => returned = {val[t]}

\* every task has returned from get_pool() with the pool, and all but one of
\* them waited for the creator
C1_Witness ==
    /\ createFailed = 0 /\ ~usePoolCalled
    /\ \A t \in Tasks : pc[t] = "done" /\ ret[t] \in {"pool_waited", "pool_made"}
    /\ Cardinality({t \in Tasks : ret[t] = "pool_waited"}) = NumTasks - 1
    /\ createCalls = 1

\* ------------------------------------------------------------------ C2
C2_OncePerOwner ==
    \A o \in Owners : r_failed[o] = 0 =>
        /\ r_creates[o] <= 1
        /\ (OwnerPool(o) # NoPool /\ r_connectCalls = 0) => r_creates[o] = 1

C2_Isolated ==
    \A i \in Insts : \A o \in Owners \ {i} :
        (r_creates'[i] # r_creates[i] \/ r_madeFor'[i] # r_madeFor[i]) =>
            /\ r_pool'[PoolSlot(o)] = r_pool[PoolSlot(o)]
            /\ r_creates'[o] = r_creates[o]
            /\ r_madeFor'[o] = r_madeFor[o]

\* C2: for RedisCache (one pool for the class) and for every RedisCacheV2
\* instance (one pool each), the concurrent get_pool() calls of one owner make
\* one create_pool call for that owner as long as create_pool does not fail,
\* and a step that creates the pool of one instance leaves the pool and the
\* creation count of every other owner as they were.
C2_OneCreationPerOwner == []C2_OncePerOwner /\ [][C2_Isolated]_vars

\* two calls raced for the pool of instance 1 and one made it; a third call
\* made the pool of instance 2; the two pools differ and the class has none
C2_Witness ==
    /\ \A t \in Tasks : pc[t] = "done" /\ ret[t] = "ok" /\ owner[t] \in Insts
    /\ r_creates[1] = 1 /\ r_lost[1] >= 1 /\ r_failed[1] = 0
    /\ r_creates[2] = 1 /\ r_failed[2] = 0
    /\ OwnerPool(1) # NoPool /\ OwnerPool(2) # NoPool /\ OwnerPool(1) # OwnerPool(2)
    /\ OwnerPool(ClassOwner) = NoPool

\* ------------------------------------------------------------------ C3
\* C3: whatever RedisCache operations run (connect_v2, connect, the key
\* operations, exit), the pool of the class has been created at most once.
C3_ClassPoolCreatedOnce == r_madeFor[ClassOwner] <= 1


\* ------------------------------------------------------------------ C4
\* the statements a task executed on its cursor, in order
Issued(t) == [i \in 1..Len(log[t]) |-> log[t][i][1]]

\* the last statement a task executed completed without raising
LastOk(t) == log[t][Len(log[t])][2]

\* n statements of the wrapped operation
OpStmts(n) == [i \in 1..n |-> "STMT"]

\* C4: a scope of cursor, dict_cursor or nt_cursor that has finished, by a
\* normal return of the wrapped operation or by its raising, holds no cursor
\* any more, and a scope that was entered holds no connection either.
C4_ScopeReleasesCursor ==
    \A t \in Tasks :
        (op[t] \in PlainKinds /\ pc[t] = "done") =>
            /\ ~curOpen[t]
            /\ (opOut[t] # "none" => held[t] = "none")

\* one plain scope returned, another raised, both after executing a statement
C4_Witness ==
    /\ \A t \in ScopeTasks : pc[t] = "done" /\ op[t] \in PlainKinds /\ stmts[t] > 0
    /\ \E t \in ScopeTasks : opOut[t] = "returned" /\ ret[t] = "value"
    /\ \E t \in ScopeTasks : opOut[t] = "exc" /\ ret[t] = "exc"

C6_AsStated ==
    \A t \in Tasks :
        (op[t] = "transaction" /\ pc[t] = "done" /\ opOut[t] \in {"exc", "base"}) =>
            /\ Issued(t) = <<"BEGIN">> \o OpStmts(stmts[t]) \o <<"ROLLBACK">>
            /\ ret[t] = "None"

\* C6: when the wrapped operation of a transaction scope raises an Exception,
\* the wrapper executes ROLLBACK and no COMMIT; it returns None when ROLLBACK
\* completes, and the failure of ROLLBACK leaves the wrapper when it raises.
\* A BaseException that is no Exception is not caught: it leaves the wrapper
\* with neither ROLLBACK nor COMMIT executed.
C6_RollbackOnException ==
    \A t \in Tasks :
        (op[t] = "transaction" /\ pc[t] = "done") =>
            /\ opOut[t] = "exc" =>
                  /\ Issued(t) = <<"BEGIN">> \o OpStmts(stmts[t]) \o <<"ROLLBACK">>
                  /\ ret[t] = (IF LastOk(t) THEN "None" ELSE "exc")
            /\ opOut[t] = "base" =>
                  /\ Issued(t) = <<"BEGIN">> \o OpStmts(stmts[t])
                  /\ ret[t] = "base"

\* one transaction was rolled back after its operation raised an Exception and
\* returned None, another was left by a BaseException
C6_Witness ==
    /\ \A t \in ScopeTasks : pc[t] = "done" /\ op[t] = "transaction" /\ stmts[t] > 0
    /\ \E t \in ScopeTasks : opOut[t] = "exc" /\ ret[t] = "None"
    /\ \E t \in ScopeTasks : opOut[t] = "base" /\ ret[t] = "base"

\* ------------------------------------------------------------------ C7
\* C7: a transaction scope whose wrapped operation raised has, once it is
\* finished, made none of the statements the operation executed permanent: the
\* store is as it was before BEGIN.
C7_FailedLeavesStore ==
    \A t \in Tasks :
        (op[t] = "transaction" /\ pc[t] = "done" /\ opOut[t] \in {"exc", "base"}) =>
            store[t] = 0

\* a transaction executed as many statements as the bound allows, its operation
\* raised, the ROLLBACK completed, and the store is unchanged
C7_Witness ==
    \E t \in ScopeTasks :
        /\ op[t] = "transaction" /\ pc[t] = "done" /\ opOut[t] = "exc"
        /\ stmts[t] = MaxStmts
        /\ Issued(t)[Len(log[t])] = "ROLLBACK" /\ LastOk(t)
        /\ store[t] = 0

\* ------------------------------------------------------------------ C8
\* C8 as stated: a finished transaction scope in which BEGIN, the wrapped
\* operation or COMMIT raised an exception has executed ROLLBACK on its cursor
\* before the cursor was released.
C8_RollbackOnAnyException ==
    \A t \in Tasks :
        (/\ op[t] = "transaction" /\ pc[t] = "done" /\ Len(log[t]) > 0
         /\ \/ opOut[t] = "exc"
            \/ \E i \in 1..Len(log[t]) : log[t][i][1] \in {"BEGIN", "COMMIT"} /\ ~log[t][i][2]) =>
            \E i \in 1..Len(log[t]) : log[t][i][1] = "ROLLBACK"

\* ------------------------------------------------------------------ C9
\* a step in which a call fails with the timeout adds one scheduled
\* log_connection_pool_state and moves no diagnostic task
C9_TimeoutStep ==
    \A t \in Tasks :
        (ret'[t] = "TimeoutError" /\ ret[t] # "TimeoutError") =>
            /\ pc[t] = "acquire" /\ pc'[t] = "done"
            /\ diagSched' = diagSched + 1
            /\ total_log_counts' = total_log_counts
            /\ \A d \in DiagTasks \ {t} : pc'[d] = pc[d] /\ ret'[d] = ret[d]

\* C9: when the wait for a cursor times out, cursor_from_connection_source
\* raises the timeout to its caller and schedules log_connection_pool_state as
\* a task of its own; the failure reaches the caller in the same step, before
\* the scheduled task has run.
C9_TimeoutSchedulesDiag == [][C9_TimeoutStep]_vars

\* a call has failed with the timeout while the log_connection_pool_state it
\* scheduled has not started
C9_Witness ==
    /\ \E t \in ScopeTasks : pc[t] = "done" /\ ret[t] = "TimeoutError"
    /\ diagSched = 1
    /\ \A d \in DiagTasks : pc[d] = "idle"

\* ------------------------------------------------------------------ C10
\* C10 as stated: a call that failed with the timeout holds no connection, with
\* the pool and without it.
C10_TimeoutHoldsNothing ==
    \A t \in Tasks :
        (pc[t] = "done" /\ ret[t] = "TimeoutError") => held[t] = "none"

\* ------------------------------------------------------------------ C11
\* while connect() has never been called, nothing has called create_pool, the
\* creation lock is free, and every call that has been made is over with
\* ConnectionError
C11_NothingCreated ==
    connection_params = 0 =>
        /\ createCalls = 0
        /\ created = <<>>
        /\ pool_pending = 1
        /\ \A t \in Tasks : pc[t] # "idle" => pc[t] = "done" /\ ret[t] = "ConnectionError"

\* the step in which get_pool() fails with ConnectionError is the first step of
\* the call and changes nothing of the class
C11_FailingStep ==
    \A t \in Tasks :
        (ret'[t] = "ConnectionError" /\ ret[t] # "ConnectionError") =>
            /\ pc[t] = "idle" /\ pc'[t] = "done"
            /\ UNCHANGED <<pgVars, clVars, histVars>>

\* C11: get_pool() called when connect() was never called fails with
\* ConnectionError, creates no pool, does not take the creation lock and leaves
\* the state of the class as it was.
C11_GetPoolUnconfigured == []C11_NothingCreated /\ [][C11_FailingStep]_vars

\* every task has called get_pool() before any connect() and failed
C11_Witness ==
    /\ connection_params = 0
    /\ \A t \in Tasks : op[t] = "get_pool" /\ pc[t] = "done" /\ ret[t] = "ConnectionError"

\* ------------------------------------------------------------------ C12
\* a get_pool() call that starts when use_pool(p) has installed a pool and
\* connect() has never been called returns p at once
C12_InstalledPoolStep ==
    \A t \in Tasks :
        (/\ pc[t] = "idle" /\ op'[t] = "get_pool" /\ pc'[t] # "idle"
         /\ pool = ExtPool /\ connection_params = 0) =>
            /\ pc'[t] = "done"
            /\ ret'[t] = "pool"
            /\ val'[t] = ExtPool

\* C12 as stated: after use_pool(p) with a live pool p and without any call to
\* connect(), get_pool() returns p and creates no pool.
C12_UsePoolInsteadOfConnect == [][C12_InstalledPoolStep]_vars

\* ------------------------------------------------------------------ C13
\* once the pool has been created, and as long as nobody installs another with
\* use_pool, a step calls create_pool no more, leaves the pool in place, and a
\* get_pool() that returns in the step returns the pool created first
C13_FirstPoolStays ==
    (created # <<>> /\ ~usePoolCalled') =>
        /\ createCalls' = createCalls
        /\ created' = created
        /\ pool' = pool /\ pool = 1
        /\ \A t \in Tasks :
              (ret'[t] \in PoolResults /\ pc'[t] = "done" /\ pc[t] # "done") => val'[t] = 1

\* C13: the first successful pool creation wins: once get_pool() has created
\* the pool, connect() calls with other parameters followed by get_pool() calls
\* return that first pool and call create_pool no more.
C13_FirstCreationWins == [][C13_FirstPoolStays]_vars

\* the pool was created with one set of parameters, connect() then stored
\* another, and a get_pool() called after that returned the first pool
C13_Witness ==
    /\ ~usePoolCalled /\ lateCall
    /\ Len(created) = 1 /\ connection_params # created[1]
    /\ createCalls = 1
    /\ \E t \in Tasks : pc[t] = "done" /\ ret[t] = "pool" /\ val[t] = 1
    /\ \A t \in Tasks : pc[t] = "done" /\ ret[t] \in PoolResults /\ val[t] = 1

\* ------------------------------------------------------------------ C14
\* the task's get_cursor call runs with pooling disabled: use_pool is false, or
\* the call passes override_use_pool=False
Unpooled(t) ==
    \/ op[t] \in ScopeKinds /\ use_pool_flag = "False"
    \/ op[t] = "diag"

\* the task has entered the scope of its cursor and left it again
ScopeLeft(t) == pc[t] = "done" /\ (opOut[t] # "none" \/ (op[t] = "diag" /\ log[t] # <<>>))

\* C14: a get_cursor call with pooling disabled (use_pool false, or
\* override_use_pool false) never waits for, creates or takes a connection from
\* the shared pool; it opens a dedicated connection, and when the scope of the
\* returned cursor has been left, by return or by exception, the cursor and the
\* dedicated connection are both closed.
C14_DedicatedConnection ==
    /\ use_pool_flag = "False" => (createCalls = 0 /\ pool = NoPool)
    /\ \A t \in Tasks :
          Unpooled(t) =>
              /\ held[t] # "pooled"
              /\ pc[t] \notin {"wait_lock", "creating"}
              /\ ret[t] \notin PoolResults
              /\ curOpen[t] => held[t] = "dedicated"
              /\ ScopeLeft(t) => (~curOpen[t] /\ held[t] = "none")

\* with use_pool false, one scope was left by return and another by exception,
\* each after a statement on its dedicated connection
C14_Witness ==
    /\ use_pool_flag = "False"
    /\ \A t \in ScopeTasks : ScopeLeft(t) /\ stmts[t] > 0 /\ held[t] = "none"
    /\ \E t \in ScopeTasks : opOut[t] = "returned"
    /\ \E t \in ScopeTasks : opOut[t] \in {"exc", "base"}

\* ------------------------------------------------------------------ C15
\* C15: of the invocations of log_connection_pool_state, one after another or
\* interleaved, any two that pass the rate limit and take a snapshot start at
\* least ten minutes (RateWindow ticks) apart.
C15_SnapshotsApart ==
    \A i, j \in 1..Len(passes) : i < j => passes[j] - passes[i] >= RateWindow

\* two invocations passed the rate limit, exactly ten minutes apart, the second
\* while the first was still waiting for its query on the separate connection
C15_Witness ==
    /\ Len(passes) = 2
    /\ passes[2] - passes[1] = RateWindow
    /\ \A d \in DiagCallers : op[d] = "diag" /\ pc[d] \in {"db_connect", "acquire", "in_scope"}

\* ------------------------------------------------------------------ C16
\* no request observes the AttributeError of a log_connection_pool_state that
\* found no pool or read the missing now_time
C16_NoDiagFailureSeen == \A t \in ScopeTasks : ret[t] # "AttributeError"

\* a request that has failed with the timeout keeps that outcome in every step
C16_TimeoutStays ==
    \A t \in ScopeTasks :
        (pc[t] = "done" /\ ret[t] = "TimeoutError") =>
            (pc'[t] = "done" /\ ret'[t] = "TimeoutError")

\* C16: a failure inside log_connection_pool_state (no pool, a failed query on
\* the separate connection, any error raised) never reaches the request: the
\* caller of the get_cursor that timed out observes the timeout failure and
\* nothing else, whatever the diagnostic task does.
C16_DiagFailureContained == []C16_NoDiagFailureSeen /\ [][C16_TimeoutStays]_vars

\* a request timed out and the log_connection_pool_state it scheduled has
\* failed, while the request still shows the timeout
C16_Witness ==
    /\ \E t \in ScopeTasks : pc[t] = "done" /\ ret[t] = "TimeoutError"
    /\ \E d \in DiagTasks :
          op[d] = "diag" /\ pc[d] = "done" /\ ret[d] \in {"AttributeError", "exc"}

\* ------------------------------------------------------------------ C17

\* an eviction comes out of a sleep
C17_AfterSleep ==
    (cl_clearing' > cl_clearing \/ cl_cleared' # cl_cleared) =>
        /\ cl_sleep > 0 /\ cl_sleep' = cl_sleep - 1
        /\ cl_cleared'

\* the end of every eviction schedules the next _periodic_cleansing
C17_AlwaysRescheduled == cl_clearing' < cl_clearing => cl_sched' = cl_sched + 1

\* the refresh period is not positive at some moment after the pool was made
C17_Reconfigured == created # <<>> /\ refresh_period <= 0

\* C17 as stated: after the pool is first created, with a refresh period that
\* is positive from then on the eviction (pool.clear) recurs for ever, each one
\* after a sleep and followed by the scheduling of the next; with a refresh
\* period that is never positive the eviction task never calls pool.clear.
C17_AsStated ==
    /\ ([](created = <<>>) \/ <>C17_Reconfigured \/ []<><<cleansing_wake>>_vars)
    /\ [][C17_AfterSleep]_vars /\ [][C17_AlwaysRescheduled]_vars
    /\ (<>(refresh_period > 0) \/ []~cl_cleared)

\* ------------------------------------------------------------------ C18

\* the tasks that have called the memoized function with the digest key of t
CalledWith(t) ==
    {u \in MemoTasks : pc[u] # "idle" /\ ~KeyFails(m_dec, m_sig[u]) /\ KeyOf(u) = KeyOf(t)}

\* w is what v is after json.dumps and json.loads: a tuple comes back a list
JsonEqual(v, w) == w = v \/ (v = "tuple" /\ w = "list")

\* C18: when a memoized function is called twice in sequence with identical
\* arguments, the first call returning the function's result and the second
\* call starting only when the entry is there, the function has been invoked
\* exactly once and the second call returns the first call's value as it is
\* after the JSON round trip.
C18_SecondCallHits ==
    \A t, u \in MemoTasks :
        (/\ t < u
         /\ m_sig[t] = m_sig[u]
         /\ CalledWith(t) = {t, u}
         /\ pc[t] = "done" /\ ret[t] = "miss"
         /\ pc[u] = "done" /\ m_seen[u])
        => /\ CallsOf(m_calls, KeyOf(t)) = 1
           /\ ret[u] = "hit"
           /\ JsonEqual(m_val[t], m_val[u])

\* a tuple was returned, stored, and returned as a list to the second call
C18_Witness ==
    /\ m_dec = "redis_cache_decorator"
    /\ m_sig[1] = m_sig[2]
    /\ pc[1] = "done" /\ ret[1] = "miss" /\ m_val[1] = "tuple"
    /\ pc[2] = "done" /\ m_seen[2] /\ ret[2] = "hit" /\ m_val[2] = "list"
    /\ CallsOf(m_calls, KeyOf(1)) = 1

\* ------------------------------------------------------------------ C19

\* t missed the cache and returned the function's result
Missed(t) == t \in MemoTasks /\ pc[t] = "done" /\ ret[t] = "miss"

\* a call that missed writes its own serialized result over whatever is there
C19_WriteStep ==
    \A t \in MemoTasks :
        (pc[t] = "m_set" /\ pc'[t] = "done" /\ ret'[t] = "miss")
        => EntryOf(m_cache', KeyOf(t)) = Dumps(m_val[t])

\* two calls of one signature that both missed have both invoked the function,
\* and the entry is the serialized result of a call that missed
C19_BothInvoked ==
    \A t, u \in MemoTasks :
        (t # u /\ m_sig[t] = m_sig[u] /\ Missed(t) /\ Missed(u))
        => /\ CallsOf(m_calls, KeyOf(t)) >= 2
           /\ \E w \in CalledWith(t) : Missed(w) /\ EntryOf(m_cache, KeyOf(t)) = Dumps(m_val[w])

\* C19: two concurrent memoized calls with the same signature that both miss
\* both invoke the wrapped function and both write the entry; each write
\* replaces the entry, so the last one remains, and the entry is the
\* serialized result of one of the calls.
C19_LastWriteWins == [][C19_WriteStep]_vars /\ []C19_BothInvoked

\* both calls missed, with different results: the entry is one of the two
C19_Witness ==
    /\ m_sig[1] = m_sig[2]
    /\ Missed(1) /\ Missed(2)
    /\ ~m_seen[2]
    /\ m_val[1] = "None" /\ m_val[2] = "tuple"
    /\ CallsOf(m_calls, KeyOf(1)) = 2
    /\ EntryOf(m_cache, KeyOf(1)) \in {"null", "[1, 2]"}

\* ------------------------------------------------------------------ C20

\* an object of a class of the application: its type is not in the allow-list
Object(v) == v \in {"objA", "objB"}

\* the call of t has an argument of a type outside the allow-list
HasObject(t) == Object(m_sig[t].a) \/ Object(m_sig[t].k)

\* two signatures that differ in nothing but arguments of such a type
SameButObjects(s1, s2) ==
    /\ s1.a = s2.a \/ (Object(s1.a) /\ Object(s2.a))
    /\ s1.k = s2.k

\* C20 as stated: with a v2 decorator a call of a memoized coroutine function
\* that has an argument of a type outside the allow-list succeeds, that is, it
\* returns the function's result or the stored one unless the function itself
\* raises or returns what json.dumps refuses; and two calls that differ solely
\* in such arguments have the same cache key and share the entry, the later
\* one returning what the earlier one stored.
C20_ObjectArgumentsIgnored ==
    \A t \in MemoTasks :
        (FiltersArgs(m_dec) /\ m_fkind # "plain" /\ pc[t] = "done" /\ HasObject(t))
        => /\ ret[t] \in {"hit", "miss"} \/ ret[t] = "FuncError" \/ m_val[t] = "object"
           /\ \A u \in MemoTasks :
                (/\ u < t /\ SameButObjects(m_sig[u], m_sig[t])
                 /\ pc[u] = "done" /\ ret[u] = "miss" /\ m_seen[t])
                => /\ KeyOf(u) = KeyOf(t)
                   /\ ret[t] = "hit"
                   /\ \E w \in CalledWith(t) : Missed(w) /\ JsonEqual(m_val[w], m_val[t])

\* ------------------------------------------------------------------ C21

\* the bulk delete of a clear_namespace / delete_by_prefix call
C21_BulkDelete == kv_pc = "listed" /\ kv_pc' = "done"

\* after it no key is left that matched and existed from the start of the
\* call, and every matching key created since the listing is still there,
\* unless its name was listed (it existed, was deleted and was created again)
C21_SweepStep ==
    C21_BulkDelete
    => /\ \A key \in kv_since : kv_store'[key] = Nil
       /\ \A key \in kv_late \ kv_listed :
              kv_store'[key] = kv_store[key] /\ kv_store'[key] # Nil

\* C21: delete_by_prefix / clear_namespace removes every key that matches the
\* pattern and exists from the start of the call until its bulk delete; a
\* matching key that a concurrent operation creates between the key listing
\* and the bulk delete, under a name that was not listed, exists after the call.
C21_SweepRemovesListed == [][C21_SweepStep]_vars

\* the call has returned: a key it listed is gone, a matching key created
\* after the listing is there
C21_Witness ==
    /\ kv_pc = "done"
    /\ kv_res = "count"
    /\ \E key \in kv_listed : kv_store[key] = Nil
    /\ \E key \in kv_late \ kv_listed : kv_store[key] # Nil /\ IsPrefix(kv_pat, key)

\* ------------------------------------------------------------------ C25

\* set_key_if_not_exists(k, v, ns) has just written, with a namespace supplied
C25_JustSetIfNotExists(k, v, ns) ==
    /\ kv_last = [name |-> "set_key_if_not_exists", ns |-> ns, k |-> k, v |-> v]
    /\ kv_res = "True"
    /\ ns # None

\* the next operation is get_key(k, ns), which reads v from ns + ':' + k, or
\* delete(k, ns), which removes the key that was written
C25_SameKeyStep ==
    \A k \in KeyNames, v \in KvValues, ns \in Namespaces :
        C25_JustSetIfNotExists(k, v, ns)
        => /\ (kv_last'.name = "get_key" /\ kv_last'.k = k /\ kv_last'.ns = ns)
              => (kv_res' = v /\ kv_wrote' = GetKey(ns, k) /\ kv_wrote = GetKey(ns, k))
           /\ (kv_last'.name = "delete" /\ kv_last'.k = k /\ kv_last'.ns = ns)
              => (kv_store'[kv_wrote] = Nil /\ kv_wrote' = kv_wrote)

\* C25 as stated: every key operation maps a supplied namespace ns and key k
\* to the stored key ns + ':' + k, the empty namespace included: the value
\* written by set_key_if_not_exists(k, v, ns) is read by get_key(k, ns) and
\* removed by delete(k, ns).
C25_OneKeyPerNamespace == [][C25_SameKeyStep]_vars

\* ------------------------------------------------------------------ C22

\* the positions of the %s placeholders of a text, and the i-th of them
PlaceholderPositions(text) ==
    {p \in 1..(Len(text) - 1) : text[p] = "%" /\ text[p + 1] = "s"}
NthPlaceholder(text, i) ==
    CHOOSE p \in PlaceholderPositions(text) :
        Cardinality({r \in PlaceholderPositions(text) : r < p}) = i - 1

\* the text ends with the given end
EndsWith(text, end) ==
    Len(end) <= Len(text) /\ SubSeq(text, Len(text) - Len(end) + 1, Len(text)) = end

\* the conditions of a filter expression, group by group, left to right
FlatConditions(where_keys) == Concat(where_keys)

\* C22: for every filter expression, the where clause rendered by
\* _get_where_clause_with_values has as many %s placeholders as the values
\* tuple has elements, and the i-th value is the value of the condition that
\* the i-th placeholder closes, in left-to-right, group-by-group order.
C22_PlaceholdersMatchValues ==
    (q_pc = "executed" /\ q_call.name = "where")
    => LET conds == FlatConditions(q_call.where_keys) IN
       /\ Cardinality(PlaceholderPositions(q_text)) = Len(q_vals)
       /\ Len(q_vals) = Len(conds)
       /\ \A i \in 1..Len(q_vals) :
            /\ q_vals[i] = conds[i].val.value
            /\ EndsWith(SubSeq(q_text, 1, NthPlaceholder(q_text, i) - 1),
                        conds[i].key \o <<" ">> \o conds[i].val.op \o <<" ">>)

\* two groups, three conditions, values that are not all the same
C22_Witness ==
    /\ q_pc = "executed" /\ q_call.name = "where"
    /\ Len(q_call.where_keys) = 2
    /\ Len(q_call.where_keys[1]) = 2
    /\ q_vals = <<1, 2, 2>>
    /\ Cardinality(PlaceholderPositions(q_text)) = 3

\* ------------------------------------------------------------------ C23

\* select on table t with filter [{a: ('>', 1)}], order_by a, limit 10, offset 5
C23_TheCall ==
    /\ q_pc = "executed"
    /\ q_call = [NoArgs EXCEPT !.name = "select", !.table = <<"t">>, !.order_by = <<"a">>,
                               !.where_keys = <<<<[key |-> <<"a">>, val |-> [op |-> <<">">>, value |-> 1]]>>>>,
                               !.limit = 10, !.offset = 5]

\* select * from t where (a > %s) order by a limit 10 offset 5;
C23_StatedText ==
    <<"s", "e", "l", "e", "c", "t", " ", "*", " ", "f", "r", "o", "m", " ", "t", " ", "w", "h",
      "e", "r", "e", " ", "(", "a", " ", ">", " ", "%", "s", ")", " ", "o", "r", "d", "e", "r",
      " ", "b", "y", " ", "a", " ", "l", "i", "m", "i", "t", " ", "1", "0", " ", "o", "f", "f",
      "s", "e", "t", " ", "5", ";">>

\* select * from t where ((a > %s)) order by a limit 10 offset 5;
C23_ExecutedText ==
    <<"s", "e", "l", "e", "c", "t", " ", "*", " ", "f", "r", "o", "m", " ", "t", " ", "w", "h",
      "e", "r", "e", " ", "(", "(", "a", " ", ">", " ", "%", "s", ")", ")", " ", "o", "r", "d",
      "e", "r", " ", "b", "y", " ", "a", " ", "l", "i", "m", "i", "t", " ", "1", "0", " ", "o",
      "f", "f", "s", "e", "t", " ", "5", ";">>

\* C23 as stated: the call executes exactly the text
\* `select * from t where (a > %s) order by a limit 10 offset 5;` with bound
\* values (1,).
C23_AsStated == C23_TheCall => (q_text = C23_StatedText /\ q_vals = <<1>>)

\* C23: select on table t with filter [{a: ('>', 1)}], order_by a, limit 10,
\* offset 5 executes exactly the text
\* `select * from t where ((a > %s)) order by a limit 10 offset 5;`, the group
\* in its own parentheses inside those of the template, with bound values (1,).
C23_SelectText == C23_TheCall => (q_text = C23_ExecutedText /\ q_vals = <<1>>)

\* the call has been made
C23_Witness == C23_TheCall /\ Len(q_text) = 62

\* ------------------------------------------------------------------ C24

\* insert into t (x, y) values ( %s, %s) returning *;
C24_StatedText ==
    <<"i", "n", "s", "e", "r", "t", " ", "i", "n", "t", "o", " ", "t", " ", "(", "x", ",", " ",
      "y", ")", " ", "v", "a", "l", "u", "e", "s", " ", "(", " ", "%", "s", ",", " ", "%", "s",
      ")", " ", "r", "e", "t", "u", "r", "n", "i", "n", "g", " ", "*", ";">>

\* the names of the mapping's keys, in its iteration order
C24_KeysOf(values) == [i \in DOMAIN values |-> values[i].key]

\* C24: insert on table t with values {x: 1, y: 2} executes exactly the text
\* `insert into t (x, y) values ( %s, %s) returning *;` with bound values
\* (1, 2); every insert renders one placeholder per key of the mapping, the keys
\* in the mapping's iteration order and the values tuple in the same order.
C24_InsertText ==
    (q_pc = "executed" /\ q_call.name = "insert")
    => LET values == q_call.values IN
       /\ Cardinality(PlaceholderPositions(q_text)) = Len(values)
       /\ Len(q_vals) = Len(values)
       /\ \A i \in 1..Len(values) : q_vals[i] = values[i].val
       /\ IsPrefix(<<"i", "n", "s", "e", "r", "t", " ", "i", "n", "t", "o", " ">> \o q_call.table
                     \o <<" ", "(">> \o Join(<<",", " ">>, C24_KeysOf(values)) \o <<")">>, q_text)
       /\ (values = <<[key |-> <<"x">>, val |-> 1], [key |-> <<"y">>, val |-> 2]>>
            /\ q_call.table = <<"t">>)
           => (q_text = C24_StatedText /\ q_vals = <<1, 2>>)

\* insert("t", {x: 1, y: 2}) has been executed
C24_Witness ==
    /\ q_pc = "executed" /\ q_call.name = "insert"
    /\ q_call.values = <<[key |-> <<"x">>, val |-> 1], [key |-> <<"y">>, val |-> 2]>>
    /\ q_text = C24_StatedText
    /\ q_vals = <<1, 2>>

\* ------------------------------------------------------------------ C26

\* C26 as stated: every operation of a RedisCacheV2 instance, scan, lpush, llen
\* and lrange included, takes its connection from the pool the instance owns,
\* created on first use, and completes without error when create_pool does
\* not fail.  (scan of the empty pattern returns [] and takes no connection:
\* it is left out.)
C26_EveryOperationUsesOwnPool ==
    \A t \in Tasks :
        (/\ pc[t] = "done"
         /\ owner[t] \in Insts
         /\ op[t] \in {"key_op", "class_op"}
         /\ ret[t] \notin {"CreateError", "[]"})
        => /\ ret[t] = "ok"
           /\ val[t] # NoPool
           /\ val[t] = OwnerPool(owner[t])

\* ------------------------------------------------------------------ C27

\* a get_pool() call that begins when the pool is set ends in the same step
\* with that pool, whatever the state of the creation lock, and leaves the
\* lock as it is
C27_FastPathStep ==
    \A t \in Tasks :
        (/\ pc[t] = "idle" /\ op'[t] = "get_pool" /\ pc'[t] # "idle"
         /\ connection_params # 0
         /\ pool # NoPool)
        => /\ pc'[t] = "done"
           /\ ret'[t] = "pool"
           /\ val'[t] = pool
           /\ pool_pending' = pool_pending

\* C27: once the relational pool exists, get_pool() returns it without
\* acquiring the creation lock: a call made while another task holds the lock,
\* but after the pool is set, returns at once and is never blocked on the lock.
C27_NoLockOncePoolExists == [][C27_FastPathStep]_vars

\* a task holds the creation lock, waiting for create_pool; the pool was set
\* meanwhile, and another task's get_pool() has returned it
C27_Witness ==
    \E t, u \in Tasks :
        /\ pc[u] = "creating" /\ pool_pending = 0
        /\ pc[t] = "done" /\ op[t] = "get_pool" /\ ret[t] = "pool" /\ val[t] = pool
        /\ pool # NoPool

\* ------------------------------------------------------------------ C28

\* the step in which create_pool raises inside get_pool(): the lock is
\* released, the pool is left as it is, and the caller gets the failure
C28_FailureStep ==
    \A t \in Tasks :
        /\ (pc[t] = "creating" /\ ret'[t] = "CreateError")
           => /\ pool_pending = 0 /\ pool_pending' = 1
              /\ pool' = pool /\ pool = NoPool
              /\ pc'[t] = "done"
        /\ (pc[t] = "r_creating" /\ ret'[t] = "CreateError")
           => /\ r_lock[owner[t]] = 0 /\ r_lock'[owner[t]] = 1
              /\ r_pool' = r_pool /\ r_pool[owner[t]] = NoPool
              /\ pc'[t] = "done"

\* after a failure, with the pool still absent, a task that gets the lock and
\* a call that begins both go on to create_pool
C28_RetryStep ==
    \A t \in Tasks :
        /\ (createFailed > 0 /\ pool = NoPool /\ pc[t] = "wait_lock" /\ pc'[t] # "wait_lock")
           => (pc'[t] = "creating" /\ createCalls' = createCalls + 1)
        /\ (createFailed > 0 /\ pool = NoPool /\ pc[t] = "idle" /\ op'[t] = "get_pool")
           => pc'[t] = "wait_lock"
        /\ (pc[t] = "r_wait_lock" /\ pc'[t] # "r_wait_lock"
            /\ r_failed[owner[t]] > 0 /\ r_pool[owner[t]] = NoPool)
           => (pc'[t] = "r_creating" /\ r_creates'[owner[t]] = r_creates[owner[t]] + 1)
        /\ (pc[t] = "idle" /\ op'[t] = "key_op"
            /\ r_failed[owner'[t]] > 0 /\ r_pool[owner'[t]] = NoPool)
           => pc'[t] = "r_wait_lock"

\* no task waits for a creation lock
C28_NoneWaiting == \A t \in Tasks : pc[t] \notin {"wait_lock", "r_wait_lock"}

\* no task waits for a creation lock for ever: the calls being finitely many,
\* from some time on none waits
C28_NoneBlocked == <>[]C28_NoneWaiting

\* C28: when pool creation fails inside get_pool(), relational or key-value,
\* the creation lock is released, the pool stays absent, the failure goes to
\* that caller, and every task waiting on the lock and every later get_pool()
\* call goes on to attempt the creation again; no caller is blocked for ever on
\* the creation lock.
C28_FailureReleasesLock ==
    [][C28_FailureStep]_vars /\ [][C28_RetryStep]_vars /\ C28_NoneBlocked

\* one creation failed for its caller, and a task that waited for the lock
\* tried again and made the pool; a creation for a RedisCacheV2 instance
\* failed and left the instance's lock free
C28_Witness ==
    /\ createFailed = 1 /\ createCalls = 2 /\ pool # NoPool /\ pool_pending = 1
    /\ \E t, u \in Tasks :
         /\ ret[t] = "CreateError" /\ op[t] = "get_pool"
         /\ ret[u] = "pool_made" /\ op[u] = "get_pool"
    /\ \E o \in Insts, t \in Tasks :
         /\ op[t] = "key_op" /\ owner[t] = o /\ ret[t] = "CreateError"
         /\ r_failed[o] = 1 /\ r_pool[o] = NoPool /\ r_lock[o] = 1

\* ------------------------------------------------------------------ C29

\* t has called the memoized function and its key was computed
Keyed(t) == t \in MemoTasks /\ pc[t] # "idle" /\ ~KeyFails(m_dec, m_sig[t])

\* the call has positional arguments
HasArgs(s) == s.self # "absent"

\* the two calls differ in nothing but the first positional argument
SameButFirst(s, r) == HasArgs(s) /\ HasArgs(r) /\ s.a = r.a /\ s.k = r.k

\* a value the decorator leaves out of the key: with the v2 decorators one
\* whose type is outside the allow-list, None included
LeftOut(dec, v) == FiltersArgs(dec) /\ (v = "None" \/ Object(v))

\* a later positional argument as the key takes it: a dict counts as the str
\* that is its JSON text with sorted keys
AsKeyed(v) ==
    IF v \in Dicts THEN <<"str", DictText(DictItems(v))>>
    ELSE IF v \in Strs THEN <<"str", StrText(v)>>
    ELSE <<"value", v>>

\* the positional arguments of a call as the key takes them: none at all, or
\* those after the first that are not left out
PosKeyed(dec, s) ==
    IF ~HasArgs(s) THEN <<"no arguments">>
    ELSE IF s.a = "absent" \/ LeftOut(dec, s.a) THEN <<"later arguments">>
    ELSE <<"later arguments", AsKeyed(s.a)>>

\* the JSON text of the keyword arguments that are not left out
KwKeyed(dec, k) == IF k = "absent" \/ LeftOut(dec, k) THEN "{}" ELSE Dumps(k)

\* the value is of a type json.dumps accepts
C29_Serializable(v) == v # "absent" /\ ~Object(v)

\* the two calls differ in a serializable argument after the first
C29_Differ(s, r) ==
    \/ s.a # r.a /\ (C29_Serializable(s.a) \/ C29_Serializable(r.a))
    \/ s.k # r.k /\ (C29_Serializable(s.k) \/ C29_Serializable(r.k))

\* C29 as the specification states it: calls that differ only in the first
\* positional argument have the same key, and calls that differ in a later
\* serializable positional argument or in a serializable keyword argument
\* have different keys.
C29_AsStated ==
    \A t, u \in MemoTasks :
        (Keyed(t) /\ Keyed(u))
        => /\ SameButFirst(m_sig[t], m_sig[u]) => KeyOf(t) = KeyOf(u)
           /\ C29_Differ(m_sig[t], m_sig[u]) => KeyOf(t) # KeyOf(u)

\* C29: the first positional argument is never in the key, so calls that
\* differ only in it have the same key and the second finds the entry the first
\* wrote; with the values the v2 decorators leave out (those of a type outside
\* the allow-list, None included) set aside, two calls have different keys
\* exactly when one has positional arguments and the other has none, a later
\* positional argument differs (a dict counting as the str of its JSON text
\* with sorted keys) or the JSON text of the keyword arguments differs (a
\* tuple and a list of the same elements have the same JSON text).
C29_KeyCoversLaterArguments ==
    \A t, u \in MemoTasks :
        (Keyed(t) /\ Keyed(u))
        => /\ (KeyOf(t) = KeyOf(u))
              <=> (/\ PosKeyed(m_dec, m_sig[t]) = PosKeyed(m_dec, m_sig[u])
                   /\ KwKeyed(m_dec, m_sig[t].k) = KwKeyed(m_dec, m_sig[u].k))
           /\ (SameButFirst(m_sig[t], m_sig[u]) /\ pc[t] = "done" /\ ret[t] = "miss")
              => EntryOf(m_cache, KeyOf(u)) # Nil

\* a call on another receiver found the entry of the first call
C29_Witness ==
    /\ m_sig[1].self = "s1" /\ m_sig[2].self = "s2"
    /\ SameButFirst(m_sig[1], m_sig[2])
    /\ m_sig[1].a = "tuple"
    /\ pc[1] = "done" /\ ret[1] = "miss"
    /\ pc[2] = "done" /\ m_seen[2] /\ ret[2] = "hit"
    /\ CallsOf(m_calls, KeyOf(1)) = 1

\* ------------------------------------------------------------------ C30

\* the wrapped function raised in the call of t
Raised(t) == t \in MemoTasks /\ ret[t] = "FuncError"

\* the step in which the wrapped function raises in a call that missed: the
\* call, which had read a miss and invoked the function, ends with the failure
\* and no entry changes
C30_RaiseStep ==
    \A t \in MemoTasks :
        (ret[t] # "FuncError" /\ ret'[t] = "FuncError")
        => /\ pc[t] \in {"m_func", "m_body"}
           /\ pc'[t] = "done"
           /\ m_cache' = m_cache
           /\ CallsOf(m_calls', KeyOf(t)) >= 1

\* a call in which the function raised is over and has written nothing: while
\* no call of the signature has returned a result, there is no entry for it
C30_NoEntry ==
    \A t \in MemoTasks :
        Raised(t)
        => /\ pc[t] = "done"
           /\ (\A u \in CalledWith(t) : ~Missed(u)) => EntryOf(m_cache, KeyOf(t)) = Nil

\* the next call of the signature after one that raised, and no other, finds
\* no entry and invokes the function again
C30_InvokedAgain ==
    \A t, u \in MemoTasks :
        (/\ t < u /\ Raised(t)
         /\ m_sig[u] = m_sig[t]
         /\ CalledWith(t) = {t, u}
         /\ pc[u] = "done")
        => /\ ~m_seen[u] /\ ret[u] # "hit"
           /\ CallsOf(m_calls, KeyOf(t)) = 2

\* C30: when a memoized call misses the cache and the wrapped function raises,
\* no entry is written for the signature, the caller gets the failure, and the
\* next call with the same signature invokes the wrapped function again.
C30_RaiseWritesNothing ==
    /\ [][C30_RaiseStep]_vars
    /\ []C30_NoEntry
    /\ []C30_InvokedAgain

\* the function raised in the first call and returned in the second, which
\* wrote the entry
C30_Witness ==
    /\ Raised(1) /\ pc[1] = "done"
    /\ m_sig[2] = m_sig[1]
    /\ pc[2] = "done" /\ ret[2] = "miss"
    /\ CallsOf(m_calls, KeyOf(1)) = 2
    /\ EntryOf(m_cache, KeyOf(1)) = Dumps(m_val[2])

\* ------------------------------------------------------------------ C31

\* the keys stored under the namespace ns
KeysOfNamespace(ns) == {GetKey(ns, k) : k \in KeyNames} \cup {ns}

\* the step in which the sweep of clear_namespace(ns) deletes: every key that
\* is not a key of ns stays as it is
C31_FrameStep ==
    (kv_sweep.name = "clear_namespace" /\ kv_pc = "listed" /\ kv_pc' = "done")
    => \A key \in StoredKeys \ KeysOfNamespace(kv_sweep.ns) :
           kv_store'[key] = kv_store[key]

\* C31 as stated: clear_namespace(ns) removes only keys of the namespace ns;
\* every key stored under another namespace, one that begins with ns
\* included, and every key without a namespace is left unchanged.
C31_ClearsOnlyNamespace == [][C31_FrameStep]_vars

\* ------------------------------------------------------------------ C32

\* d runs log_connection_pool_state
Snapshot(d) == d \in Tasks /\ op[d] = "diag"

\* the session-table lookup of d has ended
LookupEnded(d) == log[d] # <<>>

\* C32: the diagnostic snapshot never waits for, creates or takes a connection
\* of the shared pool; its lookup runs on a dedicated connection that is
\* closed, with the cursor, when the lookup has ended; the cursor it waits for
\* is one of its own connection, so that it can complete while every
\* connection of the pool is in use.
C32_SnapshotOffPool ==
    \A d \in Tasks :
        Snapshot(d)
        => /\ held[d] # "pooled"
           /\ pc[d] \notin {"wait_lock", "creating"}
           /\ ret[d] \notin PoolResults
           /\ curOpen[d] => held[d] = "dedicated"
           /\ pc[d] = "in_scope" => curOpen[d]
           /\ LookupEnded(d) => (pc[d] = "done" /\ ~curOpen[d] /\ held[d] = "none")
           /\ pc[d] = "acquire" => held[d] = "dedicated"

\* the snapshot made its lookup on its own connection and ended while a
\* request held every connection of the pool
C32_Witness ==
    /\ use_pool_flag = "True" /\ ~PoolAbsent(pool)
    /\ PoolUsed = PoolMax
    /\ \E t \in Tasks : pc[t] = "in_scope" /\ held[t] = "pooled"
    /\ \E d \in Tasks :
          /\ Snapshot(d) /\ pc[d] = "done" /\ ret[d] = "None"
          /\ log[d] = <<<<"QUERY", TRUE>>>>
          /\ held[d] = "none" /\ ~curOpen[d]

\* ------------------------------------------------------------------ C33

\* the text has the part in it
Contains(text, part) ==
    \E i \in 1..(Len(text) - Len(part) + 1) : SubSeq(text, i, i + Len(part) - 1) = part

\* the condition the filter of the call makes: its groups joined by ' or '
ConditionOf(where_keys) == get_where_clause_with_values(where_keys).clause

C33_WhereOpen == <<" ", "w", "h", "e", "r", "e", " ", "(">>
C33_DeleteHead == <<"d", "e", "l", "e", "t", "e", " ", "f", "r", "o", "m", " ">>
C33_DeleteTail == <<")", ";">>
C33_UpdateTail == <<")", " ", "r", "e", "t", "u", "r", "n", "i", "n", "g", " ", "*", ";">>
C33_EmptyDelete == <<"d", "e", "l", "e", "t", "e", " ", "f", "r", "o", "m", " ", "t", " ", "w", "h", "e", "r", "e", " ", "(", ")", ";">>

\* C33: delete and update never execute a statement without a filter
\* condition: the text always has ` where (`, the condition of the filter and
\* `)` in it, and for the empty filter delete executes
\* `delete from t where ();`, with no values, not a delete of every row.
C33_AlwaysFiltered ==
    (q_pc = "executed" /\ q_call.name \in {"delete", "update"})
    => /\ Contains(q_text, C33_WhereOpen)
       /\ ~EndsWith(q_text, q_call.table \o <<";">>)
       /\ q_call.name = "delete"
          => q_text = C33_DeleteHead \o q_call.table \o C33_WhereOpen
                        \o ConditionOf(q_call.where_keys) \o C33_DeleteTail
       /\ q_call.name = "update"
          => EndsWith(q_text, C33_WhereOpen \o ConditionOf(q_call.where_keys) \o C33_UpdateTail)
       /\ (q_call.name = "delete" /\ q_call.where_keys = <<>>)
          => (q_text = C33_EmptyDelete /\ q_vals = <<>>)

\* delete was called with the empty filter
C33_Witness ==
    /\ q_pc = "executed"
    /\ q_call.name = "delete" /\ q_call.table = <<"t">> /\ q_call.where_keys = <<>>
    /\ q_text = C33_EmptyDelete
    /\ q_vals = <<>>

====
